---------------------------- MODULE Spec2Model ----------------------------
(***************************************************************************)
(* A model of the ONE WAY interpreter (src/ow.py): the literal evaluator,  *)
(* the built-in commands over the two stacks, the indentation-sensitive    *)
(* loader that builds the block tree, and the execution of the tree.       *)
(*                                                                         *)
(* Text is a sequence of one-character strings.  A number is an exact      *)
(* rational in lowest terms with a positive denominator, as a Fraction.    *)
(***************************************************************************)
EXTENDS Integers, Sequences, FiniteSets, TLC

(***************************************************************************)
(* Bounds of the model.                                                    *)
(***************************************************************************)
\* longest source drawn from the structural line menu
MaxLines == 3
\* deepest indentation (in two-space units) of a line of the structural menu
MaxIndent == 2
\* a stack never grows beyond this many values (caps looping programs)
MaxStack == 4

(***************************************************************************)
(* Text helpers.                                                           *)
(***************************************************************************)
Last(s) == s[Len(s)]

Front(s) == SubSeq(s, 1, Len(s) - 1)

\* str.startswith
StartsWith(x, p) == Len(x) >= Len(p) /\ SubSeq(x, 1, Len(p)) = p

\* x[n:]
DropChars(x, n) == SubSeq(x, n + 1, Len(x))

RECURSIVE Reverse(_)
Reverse(s) == IF s = <<>> THEN <<>> ELSE Append(Reverse(Tail(s)), Head(s))

Digits == <<"0", "1", "2", "3", "4", "5", "6", "7", "8", "9">>

\* 48 <= ord(c) <= 57
IsDigit(c) == \E i \in 1..10 : Digits[i] = c

DigitValue(c) == (CHOOSE i \in 1..10 : Digits[i] = c) - 1

RECURSIVE DigitsToInt(_)
\* int() of a string of decimal digits (0 for the empty string)
DigitsToInt(s) ==
    IF s = <<>> THEN 0 ELSE DigitsToInt(Front(s)) * 10 + DigitValue(Last(s))

RECURSIVE NatToDigits(_)
NatToDigits(n) ==
    IF n < 10 THEN <<Digits[n + 1]>>
    ELSE Append(NatToDigits(n \div 10), Digits[(n % 10) + 1])

\* str() of an int
IntToStr(n) == IF n < 0 THEN <<"-">> \o NatToDigits(-n) ELSE NatToDigits(n)

RECURSIVE Pow10(_)
Pow10(k) == IF k = 0 THEN 1 ELSE 10 * Pow10(k - 1)

(***************************************************************************)
(* Values: bool | num | str | type   (src/ow.py:33).  Every value is a     *)
(* record of one shape; the field t is the runtime type.                   *)
(***************************************************************************)
Abs(i) == IF i < 0 THEN -i ELSE i

RECURSIVE GCD(_, _)
GCD(a, b) == IF b = 0 THEN a ELSE GCD(b, a % b)

Bool(b) == [t |-> "bool", b |-> b, n |-> 0, d |-> 1, s |-> <<>>, ty |-> ""]

\* Fraction(n, d), d # 0: lowest terms, positive denominator
Num(n, d) ==
    LET g == GCD(Abs(n), Abs(d))
        sg == IF d < 0 THEN -1 ELSE 1
    IN [t |-> "num", b |-> FALSE, n |-> sg * (n \div g), d |-> Abs(d) \div g,
        s |-> <<>>, ty |-> ""]

Str(s) == [t |-> "str", b |-> FALSE, n |-> 0, d |-> 1, s |-> s, ty |-> ""]

\* a type object: bool, num (Fraction), str or type
Type(ty) == [t |-> "type", b |-> FALSE, n |-> 0, d |-> 1, s |-> <<>>, ty |-> ty]

\* type(x)
TypeOf(x) == Type(x.t)

\* isinstance(x, t); t = "object" accepts every value
IsInstance(x, t) == t = "object" \/ x.t = t

\* Fraction arithmetic and comparison
NumAdd(x, y) == Num(x.n * y.d + y.n * x.d, x.d * y.d)

NumSub(x, y) == Num(x.n * y.d - y.n * x.d, x.d * y.d)

NumMul(x, y) == Num(x.n * y.n, x.d * y.d)

\* x / y for y # 0
NumDiv(x, y) == Num(x.n * y.d, x.d * y.n)

NumLess(x, y) == x.n * y.d < y.n * x.d

\* math.ceil of a Fraction
Ceil(x) == -((-x.n) \div x.d)

(***************************************************************************)
(* _repr  (src/ow.py:226-238)                                              *)
(***************************************************************************)
S_true == <<"t", "r", "u", "e">>

S_false == <<"f", "a", "l", "s", "e">>

S_bool == <<"b", "o", "o", "l">>

S_num == <<"n", "u", "m">>

S_str == <<"s", "t", "r">>

S_type == <<"t", "y", "p", "e">>

RECURSIVE ReplaceChar(_, _, _)
\* str.replace(c, w) for a one-character c
ReplaceChar(s, c, w) ==
    IF s = <<>> THEN <<>>
    ELSE (IF Head(s) = c THEN w ELSE <<Head(s)>>) \o ReplaceChar(Tail(s), c, w)

\* _repr writing the text of a string as it is, with nothing escaped
_repr_unescaped(x) ==
    IF x.t = "bool" THEN (IF x.b THEN S_true ELSE S_false)
    ELSE IF x.t = "num"
      THEN (IF x.d = 1 THEN IntToStr(x.n)
            ELSE IntToStr(x.n) \o <<"/">> \o IntToStr(x.d))
    ELSE IF x.t = "str" THEN <<"\"">> \o x.s
    ELSE IF x.ty = "num" THEN S_num
    ELSE IF x.ty = "bool" THEN S_bool
    ELSE IF x.ty = "str" THEN S_str
    ELSE S_type

_repr(x) ==
    IF x.t = "bool" THEN (IF x.b THEN S_true ELSE S_false)
    ELSE IF x.t = "num"
      THEN (IF x.d = 1 THEN IntToStr(x.n)
            ELSE IntToStr(x.n) \o <<"/">> \o IntToStr(x.d))
    ELSE IF x.t = "str"
      THEN <<"\"">> \o ReplaceChar(ReplaceChar(x.s, "\\", <<"\\", "\\">>),
                                   "\n", <<"\\", "n">>)
    ELSE IF x.ty = "num" THEN S_num
    ELSE IF x.ty = "bool" THEN S_bool
    ELSE IF x.ty = "str" THEN S_str
    ELSE S_type

(***************************************************************************)
(* _eval  (src/ow.py:100-149).  The result is [ok, v]; ok = FALSE is the   *)
(* SyntaxError.                                                            *)
(***************************************************************************)
SyntaxError == [ok |-> FALSE, v |-> Bool(FALSE)]

Evaluated(v) == [ok |-> TRUE, v |-> v]

RECURSIVE EvalString_any_escape(_, _, _)
\* the loop of lines 118-135 taking the character after any backslash as it is
EvalString_any_escape(x, i, r) ==
    IF i > Len(x) THEN Evaluated(Str(r))
    ELSE IF x[i] = "\\"
      THEN IF i + 1 > Len(x) THEN Evaluated(Str(r))
           ELSE IF x[i + 1] = "n"
             THEN EvalString_any_escape(x, i + 2, Append(r, "\n"))
           ELSE EvalString_any_escape(x, i + 2, Append(r, x[i + 1]))
    ELSE EvalString_any_escape(x, i + 1, Append(r, x[i]))

RECURSIVE EvalString(_, _, _)
\* the loop of lines 118-135: i is the (1-based) position, r the text so far
EvalString(x, i, r) ==
    IF i > Len(x) THEN Evaluated(Str(r))
    ELSE IF x[i] = "\\"
      THEN IF i + 1 > Len(x) THEN SyntaxError
           ELSE IF x[i + 1] = "n" THEN EvalString(x, i + 2, Append(r, "\n"))
           ELSE IF x[i + 1] = "\\" THEN EvalString(x, i + 2, Append(r, "\\"))
           ELSE SyntaxError
    ELSE EvalString(x, i + 1, Append(r, x[i]))

RECURSIVE RemoveMinus_every(_)
\* x without any of its leading minus signs
RemoveMinus_every(x) ==
    IF StartsWith(x, <<"-">>) THEN RemoveMinus_every(Tail(x)) ELSE x

\* x.removeprefix("-")
RemoveMinus(x) == IF StartsWith(x, <<"-">>) THEN Tail(x) ELSE x

IsSeparator(c) == c = "." \/ c = "/"

\* the scan of lines 137-145 passes: only digits and at most one separator
ScanNumeral(y) ==
    /\ \A i \in 1..Len(y) : IsSeparator(y[i]) \/ IsDigit(y[i])
    /\ Cardinality({i \in 1..Len(y) : IsSeparator(y[i])}) <= 1

\* Fraction(x) for a text x that passed the scan: [-]digits, [-]digits/digits,
\* or [-]digits.digits with a digit on at least one side of the point
ParseFraction(x) ==
    LET y == RemoveMinus(x)
        sg == IF StartsWith(x, <<"-">>) THEN -1 ELSE 1
        seps == {i \in 1..Len(y) : IsSeparator(y[i])}
    IN IF seps = {}
         THEN IF y = <<>> THEN SyntaxError
              ELSE Evaluated(Num(sg * DigitsToInt(y), 1))
       ELSE LET k == CHOOSE i \in seps : TRUE
                a == SubSeq(y, 1, k - 1)
                b == SubSeq(y, k + 1, Len(y))
            IN IF y[k] = "/"
                 THEN IF a = <<>> \/ b = <<>> \/ DigitsToInt(b) = 0
                        THEN SyntaxError
                      ELSE Evaluated(Num(sg * DigitsToInt(a), DigitsToInt(b)))
               ELSE IF a = <<>> /\ b = <<>> THEN SyntaxError
               ELSE Evaluated(Num(sg * (DigitsToInt(a) * Pow10(Len(b))
                                         + DigitsToInt(b)),
                                  Pow10(Len(b))))

_eval(x) ==
    IF x = S_bool THEN Evaluated(Type("bool"))
    ELSE IF x = S_false THEN Evaluated(Bool(FALSE))
    ELSE IF x = S_num THEN Evaluated(Type("num"))
    ELSE IF x = S_str THEN Evaluated(Type("str"))
    ELSE IF x = S_true THEN Evaluated(Bool(TRUE))
    ELSE IF x = S_type THEN Evaluated(Type("type"))
    ELSE IF StartsWith(x, <<"\"">>) THEN EvalString(x, 2, <<>>)
    ELSE IF ScanNumeral(RemoveMinus(x)) THEN ParseFraction(x)
    ELSE SyntaxError


(***************************************************************************)
(* ProgramError, ProgramException  (src/ow.py:17-30).  A raised exception  *)
(* is [cls, name, desc, args]: desc is the description with {} where the   *)
(* texts of args are formatted in.  cls = "" means nothing was raised;     *)
(* cls = "Python" is an exception of the host language that the            *)
(* interpreter does not catch.                                             *)
(***************************************************************************)
NoException == [cls |-> "", name |-> "", desc |-> "", args |-> <<>>]

ProgramError(name, desc, args) ==
    [cls |-> "ProgramError", name |-> name, desc |-> desc, args |-> args]

ProgramException(name, desc, args) ==
    [cls |-> "ProgramException", name |-> name, desc |-> desc, args |-> args]

PythonException(name) ==
    [cls |-> "Python", name |-> name, desc |-> "", args |-> <<>>]

(***************************************************************************)
(* The machine a command acts on: the two stacks (src/ow.py:37-38, top of  *)
(* a stack = end of the sequence), the text written to standard output,    *)
(* and the exception the command raised.  A command takes the machine and  *)
(* the name st of the stack it was handed ("primary" or "secondary").      *)
(***************************************************************************)
Machine(p, s, o) ==
    [primary |-> p, secondary |-> s, out |-> o, exc |-> NoException]

Raised(m) == m.exc.cls # ""

Raise(m, e) == [m EXCEPT !.exc = e]

\* stack_.append(v)
Push(m, st, v) == [m EXCEPT ![st] = Append(@, v)]

\* stack_.extend(vs)
Extend(m, st, vs) == [m EXCEPT ![st] = @ \o vs]

Nil == Bool(FALSE)

\* _get letting the IndexError of pop() through
_get_uncaught(m, st, t) ==
    IF m[st] = <<>>
      THEN [m |-> Raise(m, PythonException("IndexError")), x |-> Nil]
    ELSE LET x == Last(m[st])
             m1 == [m EXCEPT ![st] = Front(@)]
         IN IF IsInstance(x, t) THEN [m |-> m1, x |-> x]
            ELSE [m |-> Raise(m1, ProgramException("TypeException",
                            "recieved value of type {} (expected {})",
                            <<_repr(TypeOf(x)), _repr(Type(t))>>)),
                  x |-> Nil]

\* _get leaving a value of the wrong type on the stack
_get_restoring(m, st, t) ==
    IF m[st] = <<>>
      THEN [m |-> Raise(m, ProgramException("PopException",
                                "cannot pop from empty stack", <<>>)),
            x |-> Nil]
    ELSE LET x == Last(m[st])
             m1 == [m EXCEPT ![st] = Front(@)]
         IN IF IsInstance(x, t) THEN [m |-> m1, x |-> x]
            ELSE [m |-> Raise(m, ProgramException("TypeException",
                            "recieved value of type {} (expected {})",
                            <<_repr(TypeOf(x)), _repr(Type(t))>>)),
                  x |-> Nil]

\* _get  (src/ow.py:41-52): the result is [m, x], x the value returned
_get(m, st, t) ==
    IF m[st] = <<>>
      THEN [m |-> Raise(m, ProgramException("PopException",
                                "cannot pop from empty stack", <<>>)),
            x |-> Nil]
    ELSE LET x == Last(m[st])
             m1 == [m EXCEPT ![st] = Front(@)]
         IN IF IsInstance(x, t) THEN [m |-> m1, x |-> x]
            ELSE [m |-> Raise(m1, ProgramException("TypeException",
                            "recieved value of type {} (expected {})",
                            <<_repr(TypeOf(x)), _repr(Type(t))>>)),
                  x |-> Nil]

\* two calls of _get, left operand first: the result is [m, x, y]
Get2(m, st, t1, t2) ==
    LET g1 == _get(m, st, t1)
    IN IF Raised(g1.m) THEN [m |-> g1.m, x |-> Nil, y |-> Nil]
       ELSE LET g2 == _get(g1.m, st, t2)
            IN [m |-> g2.m, x |-> g1.x, y |-> g2.x]

(***************************************************************************)
(* The built-in commands  (src/ow.py:55-252).                              *)
(***************************************************************************)
add(m, st) ==
    LET g == Get2(m, st, "num", "num")
    IN IF Raised(g.m) THEN g.m ELSE Push(g.m, st, NumAdd(g.x, g.y))

\* The second operand of the host language's `and` is evaluated only when
\* the first is true.
and_(m, st) ==
    LET g1 == _get(m, st, "bool")
    IN IF Raised(g1.m) THEN g1.m
       ELSE IF ~g1.x.b THEN Push(g1.m, st, g1.x)
       ELSE LET g2 == _get(g1.m, st, "bool")
            IN IF Raised(g2.m) THEN g2.m ELSE Push(g2.m, st, g2.x)

\* the characters the model can name, with their code points
CodePoints ==
    { <<"\n", 10>>, <<" ", 32>>, <<"\"", 34>>, <<"-", 45>>, <<".", 46>>,
      <<"/", 47>>, <<"\\", 92>>, <<"a", 97>>, <<"b", 98>>,
      <<"U+0000", 0>>, <<"U+10FFFF", 1114111>> }
      \cup { <<Digits[i], 47 + i>> : i \in 1..10 }

\* chr(n) for 0 <= n <= 1114111
Chr(n) ==
    IF \E p \in CodePoints : p[2] = n
      THEN (CHOOSE p \in CodePoints : p[2] = n)[1]
    ELSE "U+" \o ToString(n)

\* ord(c) for a character the model can name
Ord(c) == (CHOOSE p \in CodePoints : p[1] = c)[2]

\* chr_ looking at the numerator only
chr_numerator_only(m, st) ==
    LET g == _get(m, st, "num")
    IN IF Raised(g.m) THEN g.m
       ELSE IF ~(0 <= g.x.n /\ g.x.n <= 1114111)
         THEN Raise(g.m, ProgramException("UnicodeException",
                         "\"{}\" is not a valid Unicode code point",
                         <<_repr(g.x)>>))
       ELSE Push(g.m, st, Str(<<Chr(g.x.n)>>))

chr_(m, st) ==
    LET g == _get(m, st, "num")
    IN IF Raised(g.m) THEN g.m
       ELSE IF g.x.d # 1 \/ ~(0 <= g.x.n /\ g.x.n <= 1114111)
         THEN Raise(g.m, ProgramException("UnicodeException",
                         "\"{}\" is not a valid Unicode code point",
                         <<_repr(g.x)>>))
       ELSE Push(g.m, st, Str(<<Chr(g.x.n)>>))

\* concat with the operands joined in the order they were pushed
concat_pushed_order(m, st) ==
    LET g == Get2(m, st, "str", "str")
    IN IF Raised(g.m) THEN g.m ELSE Push(g.m, st, Str(g.y.s \o g.x.s))

concat(m, st) ==
    LET g == Get2(m, st, "str", "str")
    IN IF Raised(g.m) THEN g.m ELSE Push(g.m, st, Str(g.x.s \o g.y.s))

\* divide looking for 0 in the value on top
divide_top_divisor(m, st) ==
    LET g == Get2(m, st, "num", "num")
    IN IF Raised(g.m) THEN g.m
       ELSE IF g.x.n = 0
         THEN Raise(g.m, ProgramException("ZeroDivisionException",
                                          "cannot divide by 0", <<>>))
       ELSE Push(g.m, st, NumDiv(g.y, g.x))

divide(m, st) ==
    LET g == Get2(m, st, "num", "num")
    IN IF Raised(g.m) THEN g.m
       ELSE IF g.y.n = 0
         THEN Raise(g.m, ProgramException("ZeroDivisionException",
                                          "cannot divide by 0", <<>>))
       ELSE Push(g.m, st, NumDiv(g.x, g.y))

drop(m, st) == _get(m, st, "object").m

dupe(m, st) ==
    LET g == _get(m, st, "object")
    IN IF Raised(g.m) THEN g.m ELSE Extend(g.m, st, <<g.x, g.x>>)

\* a == b of the host language: a bool compares with a number as 0 or 1
PyEq(a, b) ==
    LET AsNum(v) == IF v.t = "bool" THEN Num(IF v.b THEN 1 ELSE 0, 1) ELSE v
    IN IF a.t \in {"bool", "num"} /\ b.t \in {"bool", "num"}
         THEN AsNum(a) = AsNum(b)
       ELSE a = b

\* equal comparing the values only, as == of the host language does
equal_value_only(m, st) ==
    LET g == Get2(m, st, "object", "object")
    IN IF Raised(g.m) THEN g.m ELSE Push(g.m, st, Bool(PyEq(g.x, g.y)))

equal(m, st) ==
    LET g == Get2(m, st, "object", "object")
    IN IF Raised(g.m) THEN g.m
       ELSE Push(g.m, st, Bool(TypeOf(g.x) = TypeOf(g.y) /\ PyEq(g.x, g.y)))

eval_(m, st) ==
    LET g == _get(m, st, "str")
    IN IF Raised(g.m) THEN g.m
       ELSE IF _eval(g.x.s).ok THEN Push(g.m, st, _eval(g.x.s).v)
       ELSE Raise(g.m, ProgramException("LiteralException",
                                        "\"{}\" is not a valid literal",
                                        <<g.x.s>>))

\* flip pops the primary stack and appends to the secondary stack, whichever
\* stack it was handed
\* flip taking the value from the stack it was handed
flip_handed_stack(m, st) ==
    LET g == _get(m, st, "object")
    IN IF Raised(g.m) THEN g.m ELSE Push(g.m, "secondary", g.x)

flip(m, st) ==
    LET g == _get(m, "primary", "object")
    IN IF Raised(g.m) THEN g.m ELSE Push(g.m, "secondary", g.x)

greater(m, st) ==
    LET g == Get2(m, st, "num", "num")
    IN IF Raised(g.m) THEN g.m ELSE Push(g.m, st, Bool(NumLess(g.y, g.x)))

\* the lines standard input can deliver; input() raises EOFError at its end
InputLines == { <<>>, <<"a">> }

\* input_ has one outcome for each line that can be read
input_(m, st) ==
    { Push(m, st, Str(l)) : l \in InputLines }
        \cup { Raise(m, PythonException("EOFError")) }

len_(m, st) ==
    LET g == _get(m, st, "str")
    IN IF Raised(g.m) THEN g.m ELSE Push(g.m, st, Num(Len(g.x.s), 1))

less(m, st) ==
    LET g == Get2(m, st, "num", "num")
    IN IF Raised(g.m) THEN g.m ELSE Push(g.m, st, Bool(NumLess(g.x, g.y)))

multiply(m, st) ==
    LET g == Get2(m, st, "num", "num")
    IN IF Raised(g.m) THEN g.m ELSE Push(g.m, st, NumMul(g.x, g.y))

not_(m, st) ==
    LET g == _get(m, st, "bool")
    IN IF Raised(g.m) THEN g.m ELSE Push(g.m, st, Bool(~g.x.b))

\* The second operand of the host language's `or` is evaluated only when
\* the first is false.
or_(m, st) ==
    LET g1 == _get(m, st, "bool")
    IN IF Raised(g1.m) THEN g1.m
       ELSE IF g1.x.b THEN Push(g1.m, st, g1.x)
       ELSE LET g2 == _get(g1.m, st, "bool")
            IN IF Raised(g2.m) THEN g2.m ELSE Push(g2.m, st, g2.x)

ord_(m, st) ==
    LET g == _get(m, st, "str")
    IN IF Raised(g.m) THEN g.m
       ELSE IF Len(g.x.s) = 1 THEN Push(g.m, st, Num(Ord(g.x.s[1]), 1))
       ELSE Raise(g.m, ProgramException("LengthException",
                         "recieved string of length {} (expected 1)",
                         <<IntToStr(Len(g.x.s))>>))

print_(m, st) ==
    LET g == _get(m, st, "str")
    IN IF Raised(g.m) THEN g.m ELSE [g.m EXCEPT !.out = @ \o g.x.s]

\* push  (src/ow.py:205-207)
push(value_, m, st) == Push(m, st, value_)

\* random taking the step from the top of the stack, then the upper bound,
\* then the lower bound
random_step_first(m, st) ==
    LET g == Get2(m, st, "num", "num")
        s == g.x
        b == g.y
    IN IF Raised(g.m) THEN {g.m}
       ELSE LET g3 == _get(g.m, st, "num")
                a == g3.x
            IN IF Raised(g3.m) THEN {g3.m}
               ELSE IF a = b
                 THEN {Raise(g3.m, ProgramException("RangeException",
                                       "random range is of size 0", <<>>))}
               ELSE IF s.n = 0
                 THEN {Raise(g3.m, ProgramException("StepSizeException",
                                       "step size cannot be 0", <<>>))}
               ELSE IF NumLess(a, b) = (s.n > 0)
                 THEN { Push(g3.m, st, NumAdd(a, NumMul(Num(k, 1), s))) :
                          k \in 0..(Ceil(NumDiv(NumSub(b, a), s)) - 1) }
               ELSE {Raise(g3.m, ProgramException("StepSizeException",
                         "step size sign must match boundary difference sign",
                         <<>>))}

\* random taking all three numbers and looking at the step before the bounds
random_step_checked_first(m, st) ==
    LET g == Get2(m, st, "num", "num")
        a == g.x
        b == g.y
    IN IF Raised(g.m) THEN {g.m}
       ELSE LET g3 == _get(g.m, st, "num")
                s == g3.x
            IN IF Raised(g3.m) THEN {g3.m}
               ELSE IF s.n = 0
                 THEN {Raise(g3.m, ProgramException("StepSizeException",
                                       "step size cannot be 0", <<>>))}
               ELSE IF a = b
                 THEN {Raise(g3.m, ProgramException("RangeException",
                                       "random range is of size 0", <<>>))}
               ELSE IF NumLess(a, b) = (s.n > 0)
                 THEN { Push(g3.m, st, NumAdd(a, NumMul(Num(k, 1), s))) :
                          k \in 0..(Ceil(NumDiv(NumSub(b, a), s)) - 1) }
               ELSE {Raise(g3.m, ProgramException("StepSizeException",
                         "step size sign must match boundary difference sign",
                         <<>>))}

\* random drawing from the range with the upper bound included
random_inclusive(m, st) ==
    LET g == Get2(m, st, "num", "num")
        a == g.x
        b == g.y
    IN IF Raised(g.m) THEN {g.m}
       ELSE IF a = b
         THEN {Raise(g.m, ProgramException("RangeException",
                                           "random range is of size 0", <<>>))}
       ELSE LET g3 == _get(g.m, st, "num")
                s == g3.x
            IN IF Raised(g3.m) THEN {g3.m}
               ELSE IF s.n = 0
                 THEN {Raise(g3.m, ProgramException("StepSizeException",
                                       "step size cannot be 0", <<>>))}
               ELSE IF NumLess(a, b) = (s.n > 0)
                 THEN { Push(g3.m, st, NumAdd(a, NumMul(Num(k, 1), s))) :
                          k \in 0..Ceil(NumDiv(NumSub(b, a), s)) }
               ELSE {Raise(g3.m, ProgramException("StepSizeException",
                         "step size sign must match boundary difference sign",
                         <<>>))}

\* random taking its step before it compares the bounds
random_range_checked_last(m, st) ==
    LET g == Get2(m, st, "num", "num")
        a == g.x
        b == g.y
    IN IF Raised(g.m) THEN {g.m}
       ELSE LET g3 == _get(g.m, st, "num")
                s == g3.x
            IN IF Raised(g3.m) THEN {g3.m}
               ELSE IF a = b
                 THEN {Raise(g3.m, ProgramException("RangeException",
                                       "random range is of size 0", <<>>))}
               ELSE IF s.n = 0
                 THEN {Raise(g3.m, ProgramException("StepSizeException",
                                       "step size cannot be 0", <<>>))}
               ELSE IF NumLess(a, b) = (s.n > 0)
                 THEN { Push(g3.m, st, NumAdd(a, NumMul(Num(k, 1), s))) :
                          k \in 0..(Ceil(NumDiv(NumSub(b, a), s)) - 1) }
               ELSE {Raise(g3.m, ProgramException("StepSizeException",
                         "step size sign must match boundary difference sign",
                         <<>>))}

\* random has one outcome for each number randrange can draw
random(m, st) ==
    LET g == Get2(m, st, "num", "num")
        a == g.x
        b == g.y
    IN IF Raised(g.m) THEN {g.m}
       ELSE IF a = b
         THEN {Raise(g.m, ProgramException("RangeException",
                                           "random range is of size 0", <<>>))}
       ELSE LET g3 == _get(g.m, st, "num")
                s == g3.x
            IN IF Raised(g3.m) THEN {g3.m}
               ELSE IF s.n = 0
                 THEN {Raise(g3.m, ProgramException("StepSizeException",
                                       "step size cannot be 0", <<>>))}
               ELSE IF NumLess(a, b) = (s.n > 0)
                 THEN { Push(g3.m, st, NumAdd(a, NumMul(Num(k, 1), s))) :
                          k \in 0..(Ceil(NumDiv(NumSub(b, a), s)) - 1) }
               ELSE {Raise(g3.m, ProgramException("StepSizeException",
                         "step size sign must match boundary difference sign",
                         <<>>))}

repr_(m, st) ==
    LET g == _get(m, st, "object")
    IN IF Raised(g.m) THEN g.m ELSE Push(g.m, st, Str(_repr(g.x)))

\* split pushing the characters from the first to the last
split_in_order(m, st) ==
    LET g == _get(m, st, "str")
    IN IF Raised(g.m) THEN g.m
       ELSE Extend(g.m, st, [i \in 1..Len(g.x.s) |-> Str(<<g.x.s[i]>>)])

split(m, st) ==
    LET g == _get(m, st, "str")
    IN IF Raised(g.m) THEN g.m
       ELSE Extend(g.m, st, [i \in 1..Len(g.x.s) |->
                               Str(<<Reverse(g.x.s)[i]>>)])

\* subtract taking the value on top from the one beneath it
subtract_from_below(m, st) ==
    LET g == Get2(m, st, "num", "num")
    IN IF Raised(g.m) THEN g.m ELSE Push(g.m, st, NumSub(g.y, g.x))

subtract(m, st) ==
    LET g == Get2(m, st, "num", "num")
    IN IF Raised(g.m) THEN g.m ELSE Push(g.m, st, NumSub(g.x, g.y))

typeof(m, st) ==
    LET g == _get(m, st, "object")
    IN IF Raised(g.m) THEN g.m ELSE Push(g.m, st, TypeOf(g.x))


(***************************************************************************)
(* The block tree  (src/ow.py:258-344).  The tree is an arena: nodes[i] is *)
(* the command object with identity i, and a block's children are the      *)
(* identities in its list.  nodes[1] is main.  kind is the class of a      *)
(* block ("Block", "if_", "if_else", "second", "while_"), "push" for       *)
(* partial(push, value), or the name of a built-in command.  The field     *)
(* line is not program state: it records the line the node was loaded      *)
(* from, so that properties can speak of it.                               *)
(***************************************************************************)
BlockKinds == {"Block", "if_", "if_else", "second", "while_"}

Node(kind, value, line) ==
    [kind |-> kind, value |-> value, children |-> <<>>,
     if_slice |-> 0, else_slice |-> 0, line |-> line]

main == 1

IsBlock(node) == node.kind \in BlockKinds

\* if_else.__init__ with an else slice that starts at the first child
if_else_from_start(_if) ==
    [_if EXCEPT !.kind = "if_else",
                !.else_slice = 0,
                !.if_slice = Len(_if.children)]

\* if_else.__init__  (src/ow.py:278-281): the children of _if, split at
\* their number; if_slice = n is slice(n), else_slice = n is slice(n, None)
if_else(_if) ==
    [_if EXCEPT !.kind = "if_else",
                !.else_slice = Len(_if.children),
                !.if_slice = Len(_if.children)]

(***************************************************************************)
(* The loader  (src/ow.py:356-425).                                        *)
(***************************************************************************)
\* lines 357-361: the lines of the file without their terminators; a line
\* that is only its terminator is left out
Source(file_) == SelectSeq(file_, LAMBDA l : l # <<>>)

Indent == <<" ", " ">>

S_push == <<"p", "u", "s", "h", " ">>

S_else == <<"e", "l", "s", "e">>

\* the dictionary of lines 392-420: the text of a line and the command
CommandTable ==
    {
      <<<<"a", "d", "d">>, "add">>,
      <<<<"a", "n", "d">>, "and_">>,
      <<<<"c", "h", "r">>, "chr_">>,
      <<<<"c", "o", "n", "c", "a", "t">>, "concat">>,
      <<<<"d", "i", "v", "i", "d", "e">>, "divide">>,
      <<<<"d", "r", "o", "p">>, "drop">>,
      <<<<"d", "u", "p", "e">>, "dupe">>,
      <<<<"e", "q", "u", "a", "l">>, "equal">>,
      <<<<"e", "v", "a", "l">>, "eval_">>,
      <<<<"f", "l", "i", "p">>, "flip">>,
      <<<<"g", "r", "e", "a", "t", "e", "r">>, "greater">>,
      <<<<"i", "f">>, "if_">>,
      <<<<"i", "n", "p", "u", "t">>, "input_">>,
      <<<<"l", "e", "n">>, "len_">>,
      <<<<"l", "e", "s", "s">>, "less">>,
      <<<<"m", "u", "l", "t", "i", "p", "l", "y">>, "multiply">>,
      <<<<"n", "o", "t">>, "not_">>,
      <<<<"o", "r">>, "or_">>,
      <<<<"o", "r", "d">>, "ord_">>,
      <<<<"p", "r", "i", "n", "t">>, "print_">>,
      <<<<"r", "a", "n", "d", "o", "m">>, "random">>,
      <<<<"r", "e", "p", "r">>, "repr_">>,
      <<<<"s", "e", "c", "o", "n", "d">>, "second">>,
      <<<<"s", "p", "l", "i", "t">>, "split">>,
      <<<<"s", "u", "b", "t", "r", "a", "c", "t">>, "subtract">>,
      <<<<"t", "y", "p", "e", "o", "f">>, "typeof">>,
      <<<<"w", "h", "i", "l", "e">>, "while_">>
    }

RECURSIVE Descend(_, _, _)
\* lines 370-376: [err, target, line]; err = TRUE is the IndentationError
Descend(ns, target, line) ==
    IF StartsWith(line, Indent)
      THEN IF IsBlock(ns[target]) /\ ns[target].children # <<>>
             THEN Descend(ns, Last(ns[target].children), DropChars(line, 2))
           ELSE [err |-> TRUE, target |-> target, line |-> line]
    ELSE [err |-> FALSE, target |-> target, line |-> line]

\* list.append of a new node to the block target, whatever the two are
AppendNode_unchecked(ns, target, node) ==
    [exc |-> NoException,
     nodes |-> Append([ns EXCEPT ![target].children = Append(@, Len(ns) + 1)],
                      node)]

\* list.append / second.append (src/ow.py:291-295) of a new node to the
\* block target: [exc, nodes]
AppendNode(ns, target, node) ==
    IF ns[target].kind = "second" /\ node.kind = "second"
      THEN [exc |-> ProgramError("SecondError", "cannot nest second blocks",
                                 <<>>),
            nodes |-> ns]
    ELSE [exc |-> NoException,
          nodes |-> Append([ns EXCEPT ![target].children =
                                        Append(@, Len(ns) + 1)],
                           node)]

\* lines 377-383
LoadPushLine(ns, target, line, n) ==
    IF ~IsBlock(ns[target])
      THEN [exc |-> PythonException("AttributeError"), nodes |-> ns]
    ELSE IF ~_eval(DropChars(line, 5)).ok
      THEN [exc |-> ProgramError("LiteralError",
                                 "\"{}\" is not a valid literal",
                                 <<DropChars(line, 5)>>),
            nodes |-> ns]
    ELSE AppendNode(ns, target, Node("push", _eval(DropChars(line, 5)).v, n))

\* lines 384-388; second.__setitem__ (src/ow.py:327-335) lets an if_else in
LoadElseLine(ns, target) ==
    IF ~IsBlock(ns[target])
      THEN [exc |-> PythonException("TypeError"), nodes |-> ns]
    ELSE IF ns[target].children = <<>>
      THEN [exc |-> PythonException("IndexError"), nodes |-> ns]
    ELSE IF ns[Last(ns[target].children)].kind = "if_"
      THEN [exc |-> NoException,
            nodes |-> [ns EXCEPT ![Last(ns[target].children)] = if_else(@)]]
    ELSE [exc |-> ProgramError("ElseError", "else must have a matching if",
                               <<>>),
          nodes |-> ns]

\* lines 389-425
LoadCommandLine(ns, target, line, n) ==
    IF ~IsBlock(ns[target])
      THEN [exc |-> PythonException("AttributeError"), nodes |-> ns]
    ELSE IF ~\E e \in CommandTable : e[1] = line
      THEN [exc |-> ProgramError("CommandError",
                                 "\"{}\" is not a recognized command",
                                 <<line>>),
            nodes |-> ns]
    ELSE AppendNode(ns, target,
                    Node((CHOOSE e \in CommandTable : e[1] = line)[2], Nil, n))

\* the body of the loop of line 368 for one line: [exc, nodes]
LoadLine(ns, text, n) ==
    LET d == Descend(ns, main, text)
    IN IF d.err
         THEN [exc |-> ProgramError("IndentationError", "unexpected indent",
                                    <<>>),
               nodes |-> ns]
       ELSE IF StartsWith(d.line, S_push)
         THEN LoadPushLine(ns, d.target, d.line, n)
       ELSE IF d.line = S_else THEN LoadElseLine(ns, d.target)
       ELSE LoadCommandLine(ns, d.target, d.line, n)

(***************************************************************************)
(* The report of a ProgramRaisable  (src/ow.py:427-436).  A line written   *)
(* to standard error is [fmt, name, line, desc, args]: fmt is its text,    *)
(* with the exception's name, line number and description (and the texts   *)
(* args formatted into it) where fmt names them.                           *)
(***************************************************************************)
ErrLine(fmt, name, line, desc, args) ==
    [fmt |-> fmt, name |-> name, line |-> line, desc |-> desc, args |-> args]

Text(fmt) == ErrLine(fmt, "", 0, "", <<>>)

Header(e, n) == ErrLine("{name}#{line_number}: {desc}", e.name, n, e.desc, e.args)

\* one line "  " + _repr(v) for each value, top first
Dump(stack_) ==
    [i \in 1..Len(stack_) |->
        ErrLine("  {}", "", 0, "", <<_repr(Reverse(stack_)[i])>>)]

Report(e, n, p, s) ==
    IF e.cls = "ProgramException"
      THEN <<Header(e, n), Text("Primary stack_ [")>> \o Dump(p)
             \o <<Text("]"), Text("Secondary stack: [")>> \o Dump(s)
             \o <<Text("]")>>
    ELSE <<Header(e, n)>>

(***************************************************************************)
(* Calling a command object with a stack: the outcomes of a built-in or of *)
(* partial(push, value).                                                   *)
(***************************************************************************)
Call(node, m, st) ==
    CASE node.kind = "push" -> {push(node.value, m, st)}
      [] node.kind = "add" -> {add(m, st)}
      [] node.kind = "and_" -> {and_(m, st)}
      [] node.kind = "chr_" -> {chr_(m, st)}
      [] node.kind = "concat" -> {concat(m, st)}
      [] node.kind = "divide" -> {divide(m, st)}
      [] node.kind = "drop" -> {drop(m, st)}
      [] node.kind = "dupe" -> {dupe(m, st)}
      [] node.kind = "equal" -> {equal(m, st)}
      [] node.kind = "eval_" -> {eval_(m, st)}
      [] node.kind = "flip" -> {flip(m, st)}
      [] node.kind = "greater" -> {greater(m, st)}
      [] node.kind = "input_" -> input_(m, st)
      [] node.kind = "len_" -> {len_(m, st)}
      [] node.kind = "less" -> {less(m, st)}
      [] node.kind = "multiply" -> {multiply(m, st)}
      [] node.kind = "not_" -> {not_(m, st)}
      [] node.kind = "or_" -> {or_(m, st)}
      [] node.kind = "ord_" -> {ord_(m, st)}
      [] node.kind = "print_" -> {print_(m, st)}
      [] node.kind = "random" -> random(m, st)
      [] node.kind = "repr_" -> {repr_(m, st)}
      [] node.kind = "split" -> {split(m, st)}
      [] node.kind = "subtract" -> {subtract(m, st)}
      [] node.kind = "typeof" -> {typeof(m, st)}


(***************************************************************************)
(* The state of a run of the interpreter on one file.                      *)
(***************************************************************************)
VARIABLES
    file,         \* the lines of the source file, without their terminators
    line_number,  \* the loop variable of line 368 (0: not yet bound)
    nodes,        \* the command objects built so far
    primary,      \* src/ow.py:37
    secondary,    \* src/ow.py:38
    stdout,       \* the text printed so far
    stderr,       \* the lines written to standard error
    raised,       \* the exception that ended the run, if any
    frames,       \* the calls of blocks in progress, outermost first
    pc            \* "load", "run", "done", "reported" or "crashed"

vars == <<file, line_number, nodes, primary, secondary, stdout, stderr,
          raised, frames, pc>>

source == Source(file)

\* a call of a block: the block, the position i of the next child in its
\* list, the last position hi to run, and the stack st it was called with
Frame(node, i, hi, st) == [node |-> node, i |-> i, hi |-> hi, st |-> st]

top == Last(frames)

\* the command object the innermost call is at
current == nodes[nodes[top.node].children[top.i]]

AtCommand == pc = "run" /\ top.i <= top.hi

\* the innermost call moves on to its next child
Advance == [frames EXCEPT ![Len(frames)].i = @ + 1]

Fits(m) == Len(m.primary) <= MaxStack /\ Len(m.secondary) <= MaxStack

\* the command at hand ends in the machine m: the stacks and the output are
\* as the command left them; an exception ends the run, reported by lines
\* 427-436 when it is a ProgramRaisable
Finish(m, cont) ==
    /\ primary' = m.primary
    /\ secondary' = m.secondary
    /\ stdout' = m.out
    /\ raised' = m.exc
    /\ IF m.exc.cls = "" THEN /\ frames' = cont
                              /\ pc' = pc
                              /\ stderr' = stderr
       ELSE /\ frames' = frames
            /\ pc' = IF m.exc.cls = "Python" THEN "crashed" ELSE "reported"
            /\ stderr' = IF m.exc.cls = "Python" THEN stderr
                         ELSE Report(m.exc, line_number, m.primary, m.secondary)
    /\ UNCHANGED <<file, line_number, nodes>>

\* one iteration of the loop of line 368 that raises nothing
Load ==
    /\ pc = "load"
    /\ line_number < Len(source)
    /\ LET r == LoadLine(nodes, source[line_number + 1], line_number + 1)
       IN /\ r.exc.cls = ""
          /\ nodes' = r.nodes
    /\ line_number' = line_number + 1
    /\ UNCHANGED <<file, primary, secondary, stdout, stderr, raised, frames, pc>>

\* a ProgramError that is reported without ending the run: main is called
\* with what was loaded
LoadError_then_run ==
    /\ pc = "load"
    /\ line_number < Len(source)
    /\ LET r == LoadLine(nodes, source[line_number + 1], line_number + 1)
       IN /\ r.exc.cls = "ProgramError"
          /\ raised' = r.exc
          /\ stderr' = Report(r.exc, line_number + 1, primary, secondary)
    /\ line_number' = line_number + 1
    /\ pc' = "run"
    /\ frames' = <<Frame(main, 1, Len(nodes[main].children), "primary")>>
    /\ UNCHANGED <<file, nodes, primary, secondary, stdout>>

\* an iteration that raises a ProgramError, caught at line 427
LoadError ==
    /\ pc = "load"
    /\ line_number < Len(source)
    /\ LET r == LoadLine(nodes, source[line_number + 1], line_number + 1)
       IN /\ r.exc.cls = "ProgramError"
          /\ raised' = r.exc
          /\ stderr' = Report(r.exc, line_number + 1, primary, secondary)
    /\ line_number' = line_number + 1
    /\ pc' = "reported"
    /\ UNCHANGED <<file, nodes, primary, secondary, stdout, frames>>

\* an iteration that raises an exception the interpreter does not catch
LoadCrash ==
    /\ pc = "load"
    /\ line_number < Len(source)
    /\ LET r == LoadLine(nodes, source[line_number + 1], line_number + 1)
       IN /\ r.exc.cls = "Python"
          /\ raised' = r.exc
    /\ line_number' = line_number + 1
    /\ pc' = "crashed"
    /\ UNCHANGED <<file, nodes, primary, secondary, stdout, stderr, frames>>

\* line 426: main(primary)
\* the program called with the secondary stack
RunMain_secondary ==
    /\ pc = "load"
    /\ line_number = Len(source)
    /\ pc' = "run"
    /\ frames' = <<Frame(main, 1, Len(nodes[main].children), "secondary")>>
    /\ UNCHANGED <<file, line_number, nodes, primary, secondary, stdout,
                   stderr, raised>>

RunMain ==
    /\ pc = "load"
    /\ line_number = Len(source)
    /\ pc' = "run"
    /\ frames' = <<Frame(main, 1, Len(nodes[main].children), "primary")>>
    /\ UNCHANGED <<file, line_number, nodes, primary, secondary, stdout,
                   stderr, raised>>

\* a block calls a built-in command or a push
\* the machines the command at hand can end in
Outcomes ==
    { m \in Call(current, Machine(primary, secondary, stdout), top.st) :
        Fits(m) }

CallCommand ==
    /\ AtCommand
    /\ ~IsBlock(current)
    /\ \E m \in Outcomes : Finish(m, Advance)

\* if_.__call__ working on the primary stack wherever it is called
CallIf_on_primary ==
    /\ AtCommand
    /\ current.kind = "if_"
    /\ LET g == _get(Machine(primary, secondary, stdout), "primary", "bool")
           self == nodes[top.node].children[top.i]
       IN Finish(g.m, IF g.x.b
                        THEN Append(frames, Frame(self, 1,
                                        Len(current.children), "primary"))
                      ELSE Advance)

\* if_.__call__  (src/ow.py:269-272)
CallIf ==
    /\ AtCommand
    /\ current.kind = "if_"
    /\ LET g == _get(Machine(primary, secondary, stdout), top.st, "bool")
           self == nodes[top.node].children[top.i]
       IN Finish(g.m, IF g.x.b
                        THEN Append(frames, Frame(self, 1,
                                        Len(current.children), top.st))
                      ELSE Advance)

\* if_else.__call__  (src/ow.py:283-285)
CallIfElse ==
    /\ AtCommand
    /\ current.kind = "if_else"
    /\ LET g == _get(Machine(primary, secondary, stdout), top.st, "bool")
           self == nodes[top.node].children[top.i]
       IN Finish(g.m, IF g.x.b
                        THEN Append(frames, Frame(self, 1, current.if_slice,
                                                  top.st))
                      ELSE Append(frames, Frame(self, current.else_slice + 1,
                                        Len(current.children), top.st)))

\* second.__call__ handing its commands the stack it was called with
CallSecond_same_stack ==
    /\ AtCommand
    /\ current.kind = "second"
    /\ frames' = Append(frames, Frame(nodes[top.node].children[top.i], 1,
                                      Len(current.children), top.st))
    /\ UNCHANGED <<file, line_number, nodes, primary, secondary, stdout,
                   stderr, raised, pc>>

\* second.__call__  (src/ow.py:297-299)
CallSecond ==
    /\ AtCommand
    /\ current.kind = "second"
    /\ frames' = Append(frames, Frame(nodes[top.node].children[top.i], 1,
                                      Len(current.children), "secondary"))
    /\ UNCHANGED <<file, line_number, nodes, primary, secondary, stdout,
                   stderr, raised, pc>>

\* while_.__call__  (src/ow.py:341-344): the test before each iteration
CallWhile ==
    /\ AtCommand
    /\ current.kind = "while_"
    /\ LET g == _get(Machine(primary, secondary, stdout), top.st, "bool")
           self == nodes[top.node].children[top.i]
       IN Finish(g.m, IF g.x.b
                        THEN Append(frames, Frame(self, 1,
                                        Len(current.children), top.st))
                      ELSE Advance)

\* a return that moves the calling block on, whatever block returns
Return_advancing ==
    /\ pc = "run"
    /\ top.i > top.hi
    /\ Len(frames) > 1
    /\ LET caller == Front(frames)
       IN frames' = [caller EXCEPT ![Len(caller)].i = @ + 1]
    /\ UNCHANGED <<file, line_number, nodes, primary, secondary, stdout,
                   stderr, raised, pc>>

\* the loop over a block's commands is exhausted: the call returns to the
\* calling block, which moves on unless the block is a while_ (tested again)
Return ==
    /\ pc = "run"
    /\ top.i > top.hi
    /\ Len(frames) > 1
    /\ LET caller == Front(frames)
       IN frames' = IF nodes[top.node].kind = "while_" THEN caller
                    ELSE [caller EXCEPT ![Len(caller)].i = @ + 1]
    /\ UNCHANGED <<file, line_number, nodes, primary, secondary, stdout,
                   stderr, raised, pc>>

\* main(primary) returns: the run is over
Exit ==
    /\ pc = "run"
    /\ top.i > top.hi
    /\ Len(frames) = 1
    /\ pc' = "done"
    /\ frames' = <<>>
    /\ UNCHANGED <<file, line_number, nodes, primary, secondary, stdout,
                   stderr, raised>>

Next ==
    \/ Load
    \/ LoadError
    \/ LoadCrash
    \/ RunMain
    \/ CallCommand
    \/ CallIf
    \/ CallIfElse
    \/ CallSecond
    \/ CallWhile
    \/ Return
    \/ Exit


(***************************************************************************)
(* The source files the model runs.                                        *)
(***************************************************************************)
\* the line of a command, by the name of its command object
Cmd(kind) == (CHOOSE e \in CommandTable : e[2] = kind)[1]

\* the line  push <literal>
PushLine(token) == S_push \o token

RECURSIVE Indented(_, _)
\* a line behind k indentation units
Indented(k, text) == IF k = 0 THEN text ELSE Indent \o Indented(k - 1, text)

\* a quoted-string token with the body x
Quoted(x) == <<"\"">> \o x \o <<"\"">>

\* every sequence of at most n elements of the set S
SeqsUpTo(S, n) == UNION { [1..k -> S] : k \in 0..n }

\* the block structure: every file of at most MaxLines lines, each one of
\* the structural lines behind 0..MaxIndent indentation units
StructTexts ==
    { Cmd("if_"), Cmd("while_"), Cmd("second"), S_else, PushLine(S_true),
      PushLine(S_false), Cmd("flip") }

StructLines == { Indented(k, t) : k \in 0..MaxIndent, t \in StructTexts }

StructFiles == SeqsUpTo(StructLines, MaxLines)

\* two quoted strings, concat, print
Bodies == { <<>>, <<"a">>, <<"b">>, <<"a", "b">> }

ConcatFile(x, y) ==
    <<PushLine(Quoted(x)), PushLine(Quoted(y)), Cmd("concat"), Cmd("print_")>>

ConcatFiles == { ConcatFile(x, y) : x \in Bodies, y \in Bodies }

\* a condition, an if with some pushes, an else with some pushes
NumTokens == { <<"0">>, <<"1">>, <<"2">>, <<"5">>, <<"-", "1">> }

Pushes(k, tokens) == [i \in 1..Len(tokens) |-> Indented(k, PushLine(tokens[i]))]

IfElseFile(cond, thens, elses) ==
    <<PushLine(cond), Cmd("if_")>> \o Pushes(1, thens) \o <<S_else>>
        \o Pushes(1, elses)

IfElseFiles ==
    { IfElseFile(c, t, e) : c \in {S_true, S_false, <<"1">>},
                            t \in SeqsUpTo({<<"1">>, <<"2">>}, 2),
                            e \in SeqsUpTo({<<"0">>, <<"5">>}, 2) }

\* some values, then and / or
OperandTokens == { S_true, S_false, <<"1">> }

BoolOpFiles ==
    { Pushes(0, v) \o <<Cmd(op)>> :
        v \in SeqsUpTo(OperandTokens, 3), op \in {"and_", "or_"} }

\* three numbers, then random
RandomFile(x1, x2, x3) ==
    <<PushLine(x1), PushLine(x2), PushLine(x3), Cmd("random")>>

RandomFiles ==
    { RandomFile(x1, x2, x3) : x1 \in NumTokens, x2 \in NumTokens,
                               x3 \in NumTokens }

\* a failure on a later line
FailingFiles ==
    { <<Cmd("add"), PushLine(<<"1">>)>>,
      <<PushLine(<<"1">>), Cmd("dupe"), <<"n", "o", "p">>>>,
      <<PushLine(Quoted(<<"a">>)), Cmd("print_"), PushLine(<<"1", "/", "0">>)>>,
      <<PushLine(<<"1">>), Cmd("second"), Indented(1, Cmd("flip")),
        Indented(1, Cmd("second"))>>,
      <<PushLine(<<"1">>), Indented(1, Cmd("add"))>>,
      <<Cmd("input_"), Cmd("print_")>> }

\* literal tokens: the names, numerals and quoted strings, well formed and not
LiteralTokens ==
    { S_true, S_false, S_bool, S_num, S_str, S_type,
      <<"0">>, <<"-", "3">>, <<"3", "/", "4">>, <<"-", "6", "/", "4">>,
      <<"2", ".", "5">>, <<".", "5">>, <<"5", ".">>, <<"0", "7">>,
      <<"\"">>, <<"\"", "a">>, <<"\"", "a", "\"">>, <<"\"", "3">>,
      <<"\"", "a", "\\", "\\", "b">>, <<"\"", "a", "\\", "n", "b">>,
      <<"\"", "\\", "\\", "n">>, <<"\"", "\\", "n", "\\", "\\", "\"">>,
      <<"\"", "a", "\\", "q">>, <<"\"", "a", "\\">>, <<"\"", "\\", "\"">>,
      <<"\"", "\\", "\\", "\\">>,
      <<>>, <<"-">>, <<".">>, <<"1", "/", "0">>, <<"1", "/">>, <<"/", "2">>,
      <<"-", "-", "1">>, <<"1", ".", "2", ".", "3">>, <<"1", "/", "2", "/", "3">>,
      <<"a">>, <<"1", "a">>, <<"T", "r", "u", "e">>,
      <<"+", "1">>, <<"1", "-">>, <<"-", ".", "5">>, <<"1", ".", "5", "/", "2">>,
      <<"0", "/", "0">>, <<"1", " ">>, <<"3", "/", "0", "0">>, <<"0", "/", "7">> }

\* a literal pushed twice, the second one through repr and eval
RoundTripFile(token) ==
    <<PushLine(token), PushLine(token), Cmd("repr_"), Cmd("eval_")>>

RoundTripFiles == { RoundTripFile(t) : t \in LiteralTokens }

\* the text of a token pushed as a string, then evaluated by the command
EvalFile(token) == <<PushLine(_repr(Str(token))), Cmd("eval_")>>

EvalFiles == { EvalFile(t) : t \in LiteralTokens }

\* one built-in command on a stack of at most three pushed values
OpTokens ==
    { S_true, <<"0">>, <<"1">>, <<"\"">>, <<"\"", "1">>, <<"\"", "a", "b">>,
      S_num }

\* the built-in commands that take a value from a stack
OpNames ==
    { "add", "and_", "chr_", "concat", "divide", "drop", "dupe", "equal",
      "eval_", "flip", "greater", "len_", "less", "multiply", "not_", "or_",
      "ord_", "print_", "random", "repr_", "split", "subtract", "typeof" }

\* the values v and the command op at the top level (k = 0) or in a second
\* block (k = 1), behind the lines pre
OpFile(pre, k, v, op) ==
    pre \o (IF k = 1 THEN <<Cmd("second")>> ELSE <<>>)
        \o Pushes(k, v) \o <<Indented(k, Cmd(op))>>

\* the lines before: nothing, or a value left on the primary stack (for a
\* second block) or moved to the secondary one
OpFiles ==
    { OpFile(<<>>, 0, v, op) : v \in SeqsUpTo(OpTokens, 3), op \in OpNames }
      \cup { OpFile(<<>>, 1, v, op) :
               v \in SeqsUpTo(OpTokens, 2), op \in OpNames }
      \cup { OpFile(<<PushLine(<<"7">>), Cmd("flip")>>, 0, v, op) :
               v \in SeqsUpTo(OpTokens, 2), op \in OpNames }
      \cup { OpFile(<<PushLine(<<"7">>)>>, 1, v, op) :
               v \in SeqsUpTo(OpTokens, 2), op \in OpNames }
      \cup { OpFile(<<PushLine(<<"7">>), Cmd("flip")>>, 0, v, "divide") :
               v \in [1..3 -> {<<"0">>, <<"1">>, <<"\"", "1">>}] }

\* two values and equal; a value, its copy and equal
EqualTokens ==
    { S_true, S_false, <<"0">>, <<"1">>, <<"3">>, <<"3", "/", "1">>,
      <<"\"", "3">>, <<"\"", "1">>, <<"\"", "t", "r", "u", "e">>, S_num,
      S_bool }

EqualFiles ==
    { <<PushLine(a), PushLine(b), Cmd("equal")>> :
        a \in EqualTokens, b \in EqualTokens }
      \cup { <<PushLine(a), Cmd("dupe"), Cmd("equal")>> : a \in EqualTokens }

\* a flip in an if, a while or a second block, and in a second block in an if
FlipTokens == { S_false, <<"-", "3", "/", "2">>, <<"\"", "a", "\\", "n">>, S_str }

FlipFiles ==
    { <<PushLine(S_false), PushLine(v), PushLine(S_true), Cmd(b),
        Indented(1, Cmd("flip"))>> :
        v \in FlipTokens, b \in {"if_", "while_", "second"} }
      \cup { <<PushLine(v), PushLine(S_true), Cmd("if_"),
               Indented(1, Cmd("second")), Indented(2, Cmd("flip"))>> :
               v \in FlipTokens }

\* some values, then a while whose commands print a and then b and leave
\* the stack as it was
WhileFile(conds) ==
    Pushes(0, conds)
      \o <<Cmd("while_"),
           Indented(1, PushLine(<<"\"", "a">>)), Indented(1, Cmd("print_")),
           Indented(1, PushLine(<<"\"", "b">>)), Indented(1, Cmd("print_"))>>

WhileFiles == { WhileFile(c) : c \in SeqsUpTo({S_true, S_false, <<"1">>}, 3) }

\* the file f with the line l put in after its first p lines
Insert(f, p, l) == SubSeq(f, 1, p) \o <<l>> \o SubSeq(f, p + 1, Len(f))

\* lines of no text or of spaces only
BlankLines == { <<>>, <<" ">>, <<" ", " ">> }

\* a program, and two that fail to load on their second line, with one or two
\* blank lines put in anywhere
BlankFiles ==
    LET bases == { <<PushLine(S_true), Cmd("if_"), Indented(1, PushLine(<<"2">>))>>,
                   <<PushLine(<<"1">>), <<"n", "o", "p">>>>,
                   <<PushLine(<<"1">>), S_else>> }
        More(fs) == UNION { { Insert(f, p, l) : p \in 0..Len(f),
                                                  l \in BlankLines } :
                              f \in fs }
    IN bases \cup More(bases) \cup More(More(bases))

\* a number above a 5, then chr and ord
ChrTokens ==
    { <<"9", "7">>, <<"0">>, <<"-", "0">>, <<"1", "0">>, <<"3", "4">>,
      <<"9", "7", ".", "0">>, <<"1", "9", "4", "/", "2">>,
      <<"1", "1", "1", "4", "1", "1", "1">>,
      <<"1", "1", "1", "4", "1", "1", "2">>, <<"-", "1">>,
      <<"3", "/", "2">>, <<"0", ".", "5">>, <<"-", "9", "7">> }

ChrFile(token) ==
    <<PushLine(<<"5">>), PushLine(token), Cmd("chr_"), Cmd("ord_")>>

ChrFiles == { ChrFile(t) : t \in ChrTokens }

\* texts that are no command, and one that is, at the top level or one unit
\* in, after nothing, a block or a push; an if with an else in a second block
CommandTexts ==
    { <<"p", "u", "s", "h">>, <<"p", "u", "s", "h", "1">>, <<" ", "a", "d", "d">>,
      <<"a", "d", "d", " ">>, <<"A", "D", "D">>, <<"I", "f">>,
      <<"n", "o", "p">>, <<"e", "l", "s", "e", " ">>, <<"a", "n", "d", "_">>,
      <<"a", "d", "d">> }

CommandFiles ==
    { pre \o <<Indented(k, t)>> :
        pre \in { <<>>, <<Cmd("if_")>>, <<Cmd("while_")>>, <<Cmd("second")>>,
                  <<PushLine(<<"1">>)>> },
        k \in {0, 1}, t \in CommandTexts \cup {Cmd("if_"), Cmd("while_")} }
      \cup { <<Cmd("second"), Indented(1, Cmd("if_")), Indented(2, t),
               Indented(1, S_else), Indented(2, t)>> :
               t \in {Cmd("flip"), PushLine(S_true)} }

\* two numbers and a command that is not symmetric in them; two strings and
\* concat
BinaryFiles ==
    { <<PushLine(a), PushLine(b), Cmd(op)>> :
        a \in { <<"2">>, <<"5">>, <<"-", "1">>, <<"1", "/", "2">> },
        b \in { <<"2">>, <<"5">>, <<"-", "1">>, <<"1", "/", "2">> },
        op \in {"subtract", "divide", "greater", "less"} }
      \cup { <<PushLine(a), PushLine(b), Cmd("concat")>> :
               a \in { <<"\"">>, <<"\"", "a">>, <<"\"", "b", "c">> },
               b \in { <<"\"">>, <<"\"", "a">>, <<"\"", "b", "c">> } }

\* a second block holding a condition c, a block of the kind given and a push
\* after it, between a push before the second block and a push after it; with
\* w = 1 the whole of it in an if block at the top level
ScopeFile(w, c, kind) ==
    LET body == CASE kind = "if_" ->
                       <<Cmd("if_"), Indented(1, PushLine(<<"2">>))>>
                  [] kind = "if_else" ->
                       <<Cmd("if_"), Indented(1, PushLine(<<"2">>)),
                         S_else, Indented(1, PushLine(<<"4">>))>>
                  [] kind = "while_" ->
                       <<Cmd("while_"), Indented(1, PushLine(<<"2">>)),
                         Indented(1, PushLine(S_false))>>
        inner == <<PushLine(c)>> \o body \o <<PushLine(<<"8">>)>>
        lines == <<PushLine(<<"7">>), Cmd("second")>>
                   \o [i \in 1..Len(inner) |-> Indented(1, inner[i])]
                   \o <<PushLine(<<"3">>)>>
    IN IF w = 0 THEN lines
       ELSE <<PushLine(S_true), Cmd("if_")>>
              \o [i \in 1..Len(lines) |-> Indented(1, lines[i])]

ScopeFiles ==
    { ScopeFile(w, c, kind) :
        w \in {0, 1}, c \in {S_true, S_false},
        kind \in {"if_", "if_else", "while_"} }

Files ==
    StructFiles \cup ConcatFiles \cup IfElseFiles \cup BoolOpFiles
        \cup RandomFiles \cup FailingFiles \cup RoundTripFiles
        \cup EvalFiles \cup OpFiles \cup EqualFiles \cup FlipFiles
        \cup WhileFiles \cup BlankFiles \cup ChrFiles \cup CommandFiles
        \cup BinaryFiles \cup ScopeFiles

Init ==
    /\ file \in Files
    /\ line_number = 0
    /\ nodes = <<Node("Block", Nil, 0)>>
    /\ primary = <<>>
    /\ secondary = <<>>
    /\ stdout = <<>>
    /\ stderr = <<>>
    /\ raised = NoException
    /\ frames = <<>>
    /\ pc = "load"

Spec == Init /\ [][Next]_vars


(***************************************************************************)
(* Properties.                                                             *)
(***************************************************************************)
\* the run ended while loading: no call of main was made
LoadEnded == pc \in {"reported", "crashed"} /\ frames = <<>>

\* the line the loader ended at, and where the loader's descent took it
EndedAt == Descend(nodes, main, source[line_number])

Quote == <<"\"">>

\* C1 as stated (concat, print after push "x", push "y"): when the program
\* has run, the output is x followed by y, without quote characters.
C1_Original ==
    \A x \in Bodies, y \in Bodies :
        (file = ConcatFile(x, y) /\ pc = "done") => stdout = x \o y

\* C1 as amended: the program never fails, and when it has run the output
\* is the later-pushed text, then the earlier-pushed text, each followed by
\* the quote character that ends its token; the stacks are empty.
C1_ConcatPrint ==
    file \in ConcatFiles =>
      \A x \in Bodies, y \in Bodies :
        file = ConcatFile(x, y) =>
            /\ pc \in {"load", "run", "done"}
            /\ pc = "done" =>
                  /\ stdout = y \o Quote \o x \o Quote
                  /\ primary = <<>>
                  /\ secondary = <<>>

C1_Witness ==
    /\ file = ConcatFile(<<"a">>, <<"b">>)
    /\ pc = "done"
    /\ stdout = <<"b", "\"", "a", "\"">>

RECURSIVE Descendants(_, _)
\* the nodes below node i of the tree
Descendants(ns, i) ==
    LET kids == { ns[i].children[k] : k \in 1..Len(ns[i].children) }
    IN kids \cup UNION { Descendants(ns, j) : j \in kids }

\* C2 (second inside second is rejected at any depth): a program that was
\* loaded has no second block below a second block.
C2_NoNestedSecond ==
    pc \in {"run", "done"} =>
        \A i \in DOMAIN nodes :
            nodes[i].kind = "second" =>
                \A j \in Descendants(nodes, i) : nodes[j].kind # "second"

RECURSIVE DescentFails(_, _, _)
\* some descent step of the line finds the container empty, or its last
\* child not a block
DescentFails(ns, target, line) ==
    /\ StartsWith(line, Indent)
    /\ \/ ns[target].children = <<>>
       \/ ~IsBlock(ns[Last(ns[target].children)])
       \/ DescentFails(ns, Last(ns[target].children), DropChars(line, 2))

\* C3 (a failed descent is an IndentationError): when loading ended at a
\* line one of whose descent steps fails, it ended with IndentationError.
C3_FailedDescent ==
    (LoadEnded /\ DescentFails(nodes, main, source[line_number])) =>
        (raised.cls = "ProgramError" /\ raised.name = "IndentationError")

\* C4 (else without a plain if before it is an ElseError): when loading
\* ended at an else line whose container is empty or ends in anything but
\* a plain if block, it ended with ElseError.
C4_ElseError ==
    (/\ LoadEnded
     /\ ~EndedAt.err
     /\ EndedAt.line = S_else
     /\ IsBlock(nodes[EndedAt.target])
     /\ \/ nodes[EndedAt.target].children = <<>>
        \/ nodes[Last(nodes[EndedAt.target].children)].kind # "if_")
        => (raised.cls = "ProgramError" /\ raised.name = "ElseError")

\* C5 (a run-time exception is reported with the line of the failing
\* statement): the header of the report carries the line of the command
\* that was being called when the exception was raised.
C5_ReportedLine ==
    (pc = "reported" /\ raised.cls = "ProgramException") =>
        stderr[1].line = current.line

\* the numbers the tokens of a sequence of numerals denote
Numbers(tokens) ==
    [i \in 1..Len(tokens) |->
        IF Head(tokens[i]) = "-" THEN Num(-DigitsToInt(Tail(tokens[i])), 1)
        ELSE Num(DigitsToInt(tokens[i]), 1)]

\* C6 (if-else runs exactly one branch): after  push <cond>, if, pushes,
\* else, pushes  the primary stack holds exactly the numbers pushed before
\* the else line when cond is true, exactly those pushed after it when cond
\* is false; the condition is gone and the secondary stack is untouched.
C6_IfElse ==
    file \in IfElseFiles =>
      \A t \in SeqsUpTo({<<"1">>, <<"2">>}, 2),
         e \in SeqsUpTo({<<"0">>, <<"5">>}, 2) :
        /\ (file = IfElseFile(S_true, t, e) /\ pc \notin {"load", "run"}) =>
              (pc = "done" /\ primary = Numbers(t) /\ secondary = <<>>)
        /\ (file = IfElseFile(S_false, t, e) /\ pc \notin {"load", "run"}) =>
              (pc = "done" /\ primary = Numbers(e) /\ secondary = <<>>)

C6_Witness ==
    /\ file = IfElseFile(S_false, <<<<"1">>>>, <<<<"0">>>>)
    /\ pc = "done"
    /\ primary = <<Num(0, 1)>>

\* C7 (and / or pop two booleans and push their conjunction / disjunction):
\* after  push a, push b, and  the stack holds only a /\ b, after
\* push a, push b, or  only a \/ b.
C7_AndOr ==
    \A a \in BOOLEAN, b \in BOOLEAN :
        LET tokens == <<IF a THEN S_true ELSE S_false,
                        IF b THEN S_true ELSE S_false>>
        IN /\ (file = Pushes(0, tokens) \o <<Cmd("and_")>> /\ pc = "done")
                  => primary = <<Bool(a /\ b)>>
           /\ (file = Pushes(0, tokens) \o <<Cmd("or_")>> /\ pc = "done")
                  => primary = <<Bool(a \/ b)>>

\* the numbers lower + k * step with 0 <= k < ceil((upper - lower) / step)
RandomRange(lower, upper, step) ==
    { NumAdd(lower, NumMul(Num(k, 1), step)) :
        k \in 0..(Ceil(NumDiv(NumSub(upper, lower), step)) - 1) }

\* C8 as stated (random pops the step, then the upper bound, then the lower
\* bound): after  push x1, push x2, push x3, random  a result is in the
\* range from x1 to x2 in steps of x3.
C8_Original ==
    \A x1 \in NumTokens, x2 \in NumTokens, x3 \in NumTokens :
        LET v == Numbers(<<x1, x2, x3>>)
        IN (file = RandomFile(x1, x2, x3) /\ pc = "done") =>
              /\ v[3].n # 0
              /\ Len(primary) = 1
              /\ primary[1] \in RandomRange(v[1], v[2], v[3])

\* C8 as amended (random pops the lower bound, then the upper bound, then
\* the step): after  push x1, push x2, push x3, random  a result is in the
\* range from x3 to x2 in steps of x1, and the bounds x3 and x2 are compared
\* with x1 still on the stack.
C8_PopOrder ==
    file \in RandomFiles =>
      \A x1 \in NumTokens, x2 \in NumTokens, x3 \in NumTokens :
        LET v == Numbers(<<x1, x2, x3>>)
        IN file = RandomFile(x1, x2, x3) =>
              /\ pc = "done" =>
                    /\ v[1].n # 0
                    /\ Len(primary) = 1
                    /\ primary[1] \in RandomRange(v[3], v[2], v[1])
              /\ (pc = "reported" /\ v[3] = v[2]) =>
                    (raised.name = "RangeException" /\ primary = <<v[1]>>)
              /\ (pc = "reported" /\ v[3] # v[2]) =>
                    (raised.name = "StepSizeException" /\ primary = <<>>)

C8_Witness ==
    /\ file = RandomFile(<<"1">>, <<"5">>, <<"2">>)
    /\ pc = "done"
    /\ primary = <<Num(4, 1)>>

\* a second block is being executed
InSecond ==
    /\ pc = "run"
    /\ \E i \in 1..Len(frames) : nodes[frames[i].node].kind = "second"

\* C9 as stated (inside a second block nothing touches the primary stack):
\* no step taken while a second block is executing changes the primary
\* stack.
C9_Original == [][InSecond => primary' = primary]_vars

\* C9 as amended: while a second block is executing, every command and block
\* is called with the secondary stack, and the only step that changes the
\* primary stack is a flip, which removes its top value.
C9_SecondFrame ==
    [][InSecond =>
         /\ top.st = "secondary"
         /\ \/ primary' = primary
            \/ /\ AtCommand
               /\ current.kind = "flip"
               /\ primary # <<>>
               /\ primary' = Front(primary)
               /\ secondary' = Append(secondary, Last(primary))]_vars

C9_Witness ==
    /\ InSecond
    /\ top.i > 1
    /\ nodes[nodes[top.node].children[1]].kind = "push"
    /\ secondary # <<>>
    /\ primary # <<>>

\* C10 (a load error runs nothing): once a ProgramError was raised the run
\* is over, both stacks and the output are empty, standard error holds the
\* header alone, and no further step is possible.
C10_LoadError ==
    raised.cls = "ProgramError" =>
        /\ pc = "reported"
        /\ frames = <<>>
        /\ primary = <<>>
        /\ secondary = <<>>
        /\ stdout = <<>>
        /\ stderr = <<Header(raised, line_number)>>
        /\ ~ENABLED Next

C10_Witness ==
    /\ raised.cls = "ProgramError"
    /\ raised.name = "SecondError"
    /\ line_number = 4
    /\ Len(nodes) = 4
    /\ pc = "reported"

\* C11 (repr then eval gives the value back): after a literal is pushed
\* twice and the second copy is taken through repr and eval, the run never
\* raises an exception and the two values on the stack are the same, type
\* and value.
C11_RoundTrip ==
    file \in RoundTripFiles =>
        /\ raised.cls # "ProgramException"
        /\ pc = "done" =>
              /\ Len(primary) = 2
              /\ primary[2] = primary[1]
              /\ secondary = <<>>

C11_Witness ==
    /\ file = RoundTripFile(<<"\"", "\\", "n", "\\", "\\", "\"">>)
    /\ pc = "done"
    /\ primary[2] = Str(<<"\n", "\\", "\"">>)
    /\ primary[1] = primary[2]

\* position i of token x holds a backslash that starts an escape: the run of
\* backslashes just before it has even length
C12_StartsEscape(x, i) ==
    /\ x[i] = "\\"
    /\ Cardinality({j \in 2..(i - 1) :
                       \A l \in j..(i - 1) : x[l] = "\\"}) % 2 = 0

\* the token has an escape other than \n and \\, or ends inside an escape
C12_BadEscape(x) ==
    \E i \in 2..Len(x) :
        /\ C12_StartsEscape(x, i)
        /\ i = Len(x) \/ x[i + 1] \notin {"n", "\\"}

C12_QuotedTokens == { t \in LiteralTokens : StartsWith(t, <<"\"">>) }

C12_Files == RoundTripFiles \cup EvalFiles

\* C12 as stated: a quoted token that has no closing quote is never accepted
\* by the loader.
C12_Original ==
    \A t \in C12_QuotedTokens :
        (file = RoundTripFile(t) /\ (Len(t) < 2 \/ Last(t) # "\""))
            => pc \notin {"run", "done"}

\* C12 (quoted strings are rejected for their escapes only): a quoted token
\* is refused, with LiteralError by the loader and with LiteralException by
\* eval, exactly when it has a backslash escape other than \n and \\ or ends
\* in a lone backslash; every other quoted token is accepted, closing quote or
\* not, and eval of an accepted text leaves one string on the stack.
C12_Escapes ==
    file \in C12_Files =>
      \A t \in C12_QuotedTokens :
        /\ file = RoundTripFile(t) =>
              IF C12_BadEscape(t)
                THEN /\ pc \in {"load", "reported"}
                     /\ pc = "reported" => raised.name = "LiteralError"
                ELSE raised = NoException
        /\ file = EvalFile(t) =>
              /\ pc # "crashed"
              /\ pc = "done" =>
                    /\ ~C12_BadEscape(t)
                    /\ Len(primary) = 1 /\ primary[1].t = "str"
              /\ pc = "reported" =>
                    /\ C12_BadEscape(t)
                    /\ raised.name = "LiteralException"
                    /\ primary = <<>>

C12_Witness ==
    /\ file = EvalFile(<<"\"", "a", "\\">>)
    /\ pc = "reported"
    /\ raised.name = "LiteralException"
    /\ stdout = <<>>

\* the values of the tokens v, in the order they are pushed
PushedValues(v) == [i \in 1..Len(v) |-> _eval(v[i]).v]

\* the files that push some values, a string last, and split it
C13_Files ==
    { OpFile(<<>>, 0, v, "split") :
        v \in { w \in SeqsUpTo(OpTokens, 3) :
                  w # <<>> /\ StartsWith(Last(w), <<"\"">>) } }

\* the tokens a file of pushes and one command pushes
PushedTokens == [i \in 1..(Len(file) - 1) |-> DropChars(file[i], Len(S_push))]

\* C13 (split leaves the leftmost character on top): when split runs on a
\* stack whose top is a string s, it ends with the values below s unchanged
\* and, above them, the characters of s as one-character strings, the
\* rightmost lowest and the leftmost on top; for the empty string nothing is
\* pushed.  The other stack and the output are as before.
C13_Split ==
    (file \in C13_Files /\ pc \in {"done", "reported"})
        => LET v == PushedTokens
               s == Tail(Last(v))
               n == Len(s)
           IN /\ pc = "done"
              /\ Len(primary) = Len(v) - 1 + n
              /\ SubSeq(primary, 1, Len(v) - 1) = PushedValues(Front(v))
              /\ \A i \in 1..n : primary[Len(primary) - i + 1] = Str(<<s[i]>>)
              /\ secondary = <<>> /\ stdout = <<>>

C13_Witness ==
    /\ file = OpFile(<<>>, 0, <<S_true, <<"\"", "a", "b">>>>, "split")
    /\ pc = "done"
    /\ primary = <<Bool(TRUE), Str(<<"b">>), Str(<<"a">>)>>

\* k steps of S from L stay before U
C14_Before(k, L, U, S) ==
    IF S.n > 0 THEN NumLess(NumMul(Num(k, 1), S), NumSub(U, L))
    ELSE NumLess(NumSub(U, L), NumMul(Num(k, 1), S))

\* the whole numbers k >= 0 with L + k*S before U
C14_Steps(L, U, S) ==
    { k \in 0..(Abs(NumSub(U, L).n) * S.d) : C14_Before(k, L, U, S) }

\* C14 (the range random draws from): with the lower bound L on top, the
\* upper bound U beneath it and the step S beneath that, a random that
\* succeeds leaves exactly one number L + k*S, k a whole number with
\* 0 <= k and L + k*S before U; and every such number can be drawn.  From
\* 5 to 1 in steps of -1 the numbers that can be drawn are exactly 5, 4, 3, 2.
C14_Range ==
    file \in RandomFiles =>
        LET v == Numbers(PushedTokens)
            S == v[1]
            U == v[2]
            L == v[3]
        IN /\ pc = "done" =>
                \E k \in C14_Steps(L, U, S) :
                    primary = <<NumAdd(L, NumMul(Num(k, 1), S))>>
           /\ (AtCommand /\ current.kind = "random" /\ S.n # 0) =>
                \A k \in C14_Steps(L, U, S) :
                    \E m \in Outcomes :
                        /\ m.exc = NoException
                        /\ m.primary = <<NumAdd(L, NumMul(Num(k, 1), S))>>
           /\ (file = RandomFile(<<"-", "1">>, <<"1">>, <<"5">>)
                 /\ AtCommand /\ current.kind = "random") =>
                { m.primary : m \in Outcomes }
                    = { <<Num(5, 1)>>, <<Num(4, 1)>>, <<Num(3, 1)>>,
                        <<Num(2, 1)>> }

C14_Witness ==
    /\ file = RandomFile(<<"-", "1">>, <<"1">>, <<"5">>)
    /\ pc = "done"
    /\ primary = <<Num(2, 1)>>

\* the stack the innermost call was handed, of the stacks p and s
Handed(p, s) == IF top.st = "primary" THEN p ELSE s

\* the n topmost values of the stack x are numbers
C15_Numbers(x, n) ==
    /\ Len(x) >= n
    /\ \A i \in 0..(n - 1) : x[Len(x) - i].t = "num"

\* C15 (when random fails): with the lower bound L on top of its stack, the
\* upper bound U beneath it and the step S beneath that, random raises
\* RangeException when L = U, otherwise StepSizeException when S = 0 or when
\* the sign of S is not the sign of U - L, and otherwise raises nothing and
\* leaves one number in place of the three.  When it raises, the stack it
\* leaves is the lower part of the stack it found: nothing was pushed.
C15_RandomFails ==
    [][(AtCommand /\ current.kind = "random"
          /\ C15_Numbers(Handed(primary, secondary), 2)) =>
        LET x == Handed(primary, secondary)
            y == Handed(primary', secondary')
            L == x[Len(x)]
            U == x[Len(x) - 1]
        IN IF L = U
             THEN /\ raised'.name = "RangeException"
                  /\ Len(y) < Len(x) /\ y = SubSeq(x, 1, Len(y))
           ELSE C15_Numbers(x, 3) =>
                LET S == x[Len(x) - 2]
                IN IF S.n = 0 \/ (S.n > 0) # NumLess(L, U)
                     THEN /\ raised'.name = "StepSizeException"
                          /\ Len(y) < Len(x) /\ y = SubSeq(x, 1, Len(y))
                   ELSE /\ raised' = NoException
                        /\ Len(y) = Len(x) - 2
                        /\ Front(y) = SubSeq(x, 1, Len(x) - 3)
                        /\ Last(y).t = "num"]_vars

C15_Witness ==
    /\ file = RandomFile(<<"1">>, <<"1">>, <<"5">>)
    /\ pc = "reported"
    /\ raised.name = "StepSizeException"
    /\ raised.desc = "step size sign must match boundary difference sign"
    /\ primary = <<>>

\* the files that end in equal with two values or more on the stack
C16_Files ==
    EqualFiles
      \cup { OpFile(<<>>, 0, v, "equal") :
               v \in { w \in SeqsUpTo(OpTokens, 3) : Len(w) >= 2 } }

\* C16 (equal compares type and value): equal always succeeds on two values
\* and replaces them by one boolean, true exactly when the two are the same
\* value of the same type, whichever of them is on top; a value and its copy
\* give true; true and 1, false and 0, 3 and "3 give false.  The values
\* below are unchanged.
C16_Equal ==
    (file \in C16_Files /\ pc \in {"done", "reported"}) =>
        /\ pc = "done"
        /\ secondary = <<>>
        /\ IF file[2] = Cmd("dupe") THEN primary = <<Bool(TRUE)>>
           ELSE LET v == PushedValues(PushedTokens)
                    n == Len(v)
                IN primary = SubSeq(v, 1, n - 2) \o <<Bool(v[n] = v[n - 1])>>
        /\ file \in { <<PushLine(S_true), PushLine(<<"1">>), Cmd("equal")>>,
                      <<PushLine(<<"0">>), PushLine(S_false), Cmd("equal")>>,
                      <<PushLine(<<"3">>), PushLine(<<"\"", "3">>),
                        Cmd("equal")>> }
             => primary = <<Bool(FALSE)>>

C16_Witness ==
    /\ file = <<PushLine(S_true), PushLine(<<"1">>), Cmd("equal")>>
    /\ pc = "done"
    /\ primary = <<Bool(FALSE)>>

\* C17 (division by 0): divide on a stack with two numbers on top divides
\* the top one by the one beneath it.  When the one beneath is 0 the step
\* raises ZeroDivisionException and leaves the stack without those two
\* numbers and with nothing in their place; the values below, the other
\* stack and the output are as before.  Otherwise it raises nothing and
\* leaves the quotient in their place.
C17_DivideByZero ==
    [][(AtCommand /\ current.kind = "divide"
          /\ C15_Numbers(Handed(primary, secondary), 2)) =>
        LET x == Handed(primary, secondary)
            y == Handed(primary', secondary')
            a == x[Len(x)]
            b == x[Len(x) - 1]
            below == SubSeq(x, 1, Len(x) - 2)
        IN /\ Handed(secondary', primary') = Handed(secondary, primary)
           /\ stdout' = stdout
           /\ IF b.n = 0
                THEN /\ raised'.name = "ZeroDivisionException"
                     /\ pc' = "reported"
                     /\ y = below
              ELSE /\ raised' = NoException
                   /\ y = Append(below, Num(a.n * b.d, a.d * b.n))]_vars

C17_Witness ==
    /\ file = OpFile(<<PushLine(<<"7">>), Cmd("flip")>>, 0,
                     <<<<"\"", "1">>, <<"0">>, <<"1">>>>, "divide")
    /\ pc = "reported"
    /\ raised.name = "ZeroDivisionException"
    /\ primary = <<Str(<<"1">>)>>
    /\ secondary = <<Num(7, 1)>>

\* C18 (flip moves the top of the primary stack to the secondary stack):
\* every flip step, at the top level, in an if, in a while and in a second
\* block, raises PopException and changes neither stack when the primary
\* stack is empty, and otherwise raises nothing, removes the top value of
\* the primary stack and puts it on top of the secondary stack, whatever its
\* type and whichever stack the block was handed.
C18_Flip ==
    [][(AtCommand /\ current.kind = "flip") =>
        IF primary = <<>>
          THEN /\ raised'.name = "PopException"
               /\ primary' = primary
               /\ secondary' = secondary
        ELSE /\ raised' = NoException
             /\ primary' = Front(primary)
             /\ secondary' = Append(secondary, Last(primary))]_vars

C18_Witness ==
    /\ file = <<PushLine(S_false), PushLine(<<"\"", "a", "\\", "n">>),
                PushLine(S_true), Cmd("second"), Indented(1, Cmd("flip"))>>
    /\ pc = "done"
    /\ primary = <<Bool(FALSE), Str(<<"a", "\n">>)>>
    /\ secondary = <<Bool(TRUE)>>

\* C19 (what changes the secondary stack): a step that changes the
\* secondary stack is a flip or is taken while a second block is executing;
\* every other command, push, if, if-else and while, and loading, leave it
\* as it is.
C19_SecondaryChanged ==
    [][secondary' # secondary
         => (InSecond \/ (AtCommand /\ current.kind = "flip"))]_vars

C19_Witness ==
    /\ file = OpFile(<<PushLine(<<"7">>), Cmd("flip")>>, 0,
                     <<<<"0">>, <<"1">>>>, "add")
    /\ pc = "done"
    /\ primary = <<Num(1, 1)>>
    /\ secondary = <<Num(7, 1)>>

\* the command at hand takes a value from a stack first of all
C20_Pops ==
    /\ AtCommand
    /\ current.kind \in OpNames \cup {"if_", "if_else", "while_"}

\* the stack the command at hand takes its first value from
C20_Popped ==
    IF current.kind = "flip" THEN primary ELSE Handed(primary, secondary)

\* the lines of a dump between the brackets: the values, top first
C20_Values(stack_) ==
    [i \in 1..Len(stack_) |->
        ErrLine("  {}", "", 0, "", <<_repr(stack_[Len(stack_) + 1 - i])>>)]

\* C20 (popping from an empty stack): every command that takes a value (the
\* built-ins other than input, and if, if-else and while for their
\* condition), called when the stack it takes from is empty, raises
\* PopException with both stacks as they were; the report is the header line,
\* the opening line of the primary stack, its values, the closing bracket,
\* the opening line of the secondary stack, its values and the closing
\* bracket, so that the opening line of an empty stack is followed at once
\* by its closing bracket.
C20_PopEmpty ==
    [][(C20_Pops /\ C20_Popped = <<>>) =>
        /\ raised' = ProgramException("PopException",
                                      "cannot pop from empty stack", <<>>)
        /\ pc' = "reported"
        /\ primary' = primary
        /\ secondary' = secondary
        /\ stderr' = <<Header(raised', line_number), Text("Primary stack_ [")>>
                       \o C20_Values(primary)
                       \o <<Text("]"), Text("Secondary stack: [")>>
                       \o C20_Values(secondary) \o <<Text("]")>>
        /\ primary = <<>> => stderr'[3] = Text("]")
        /\ secondary = <<>> =>
              /\ stderr'[Len(stderr') - 1] = Text("Secondary stack: [")
              /\ stderr'[Len(stderr')] = Text("]")]_vars

C20_Witness ==
    /\ file = OpFile(<<PushLine(<<"7">>)>>, 1, <<>>, "add")
    /\ pc = "reported"
    /\ raised.name = "PopException"
    /\ primary = <<Num(7, 1)>>
    /\ secondary = <<>>
    /\ Len(stderr) = 6
    /\ stderr[5] = Text("Secondary stack: [")
    /\ stderr[6] = Text("]")

\* the tokens pushed by the lines before the while line of a file
C21_Conds ==
    LET w == CHOOSE i \in 1..Len(file) : file[i] = Cmd("while_")
    IN [i \in 1..(w - 1) |-> DropChars(file[i], Len(S_push))]

\* how many of the last values pushed are true, down to the first that is not
C21_Trues(c) ==
    Cardinality({ k \in 1..Len(c) :
                    \A j \in (Len(c) - k + 1)..Len(c) : c[j] = S_true })

RECURSIVE C21_Printed(_)
\* what n runs of the commands of the while write
C21_Printed(n) == IF n = 0 THEN <<>> ELSE <<"a", "b">> \o C21_Printed(n - 1)

\* C21 (while takes one boolean before each iteration): a while over a stack
\* whose n topmost values are true runs its commands n times, each time all
\* of them in order, and takes one value more: with false beneath the n
\* trues the run ends and n + 1 values are gone; with a number there it ends
\* in TypeException, with nothing there in PopException.
C21_While ==
    (file \in WhileFiles /\ pc \in {"done", "reported"}) =>
        LET c == C21_Conds
            n == C21_Trues(c)
            rest == PushedValues(SubSeq(c, 1, Len(c) - n - 1))
        IN /\ stdout = C21_Printed(n)
           /\ secondary = <<>>
           /\ IF n = Len(c)
                THEN /\ pc = "reported" /\ raised.name = "PopException"
                     /\ primary = <<>>
              ELSE /\ primary = rest
                   /\ IF c[Len(c) - n] = S_false THEN pc = "done"
                      ELSE pc = "reported" /\ raised.name = "TypeException"

C21_Witness ==
    /\ file = WhileFile(<<S_false, S_true, S_true>>)
    /\ pc = "done"
    /\ stdout = <<"a", "b", "a", "b">>
    /\ primary = <<>>

\* C22 (the report of a run-time exception): once an exception of the
\* program is reported nothing more runs, and the report is the header line,
\* the line  Primary stack [ , one line for each value of the primary stack
\* from the top down, the line  ] , and the same for the secondary stack,
\* the stacks being those at the failure.
C22_Report ==
    (pc = "reported" /\ raised.cls = "ProgramException") =>
        /\ ~ENABLED Next
        /\ LET n == Len(primary)
           IN /\ Len(stderr) = 5 + n + Len(secondary)
              /\ stderr = <<Header(raised, stderr[1].line),
                            Text("Primary stack [")>>
                            \o C20_Values(primary)
                            \o <<Text("]"), stderr[n + 4]>>
                            \o C20_Values(secondary) \o <<Text("]")>>
              /\ stderr[n + 4].args = <<>>

\* a line of no text or of spaces only
C23_Blank(l) == \A i \in 1..Len(l) : l[i] = " "

RECURSIVE C23_Loaded(_, _, _)
\* the loop of line 368 over the lines from the k-th on: [exc, nodes]
C23_Loaded(lines, k, ns) ==
    IF k > Len(lines) THEN [exc |-> NoException, nodes |-> ns]
    ELSE LET r == LoadLine(ns, lines[k], k)
         IN IF r.exc.cls # "" THEN r ELSE C23_Loaded(lines, k + 1, r.nodes)

\* the tree without the line numbers the model keeps with it
C23_Program(ns) == [i \in DOMAIN ns |-> [ns[i] EXCEPT !.line = 0]]

\* C23 (blank lines are dropped): when a file without its blank lines (lines
\* of no text or of spaces only) loads, the file loads too, without an error,
\* and the program loaded is the same.
C23_BlankLines ==
    file \in BlankFiles =>
        LET ref == C23_Loaded(SelectSeq(file, LAMBDA l : ~C23_Blank(l)), 1,
                              <<Node("Block", Nil, 0)>>)
        IN ref.exc.cls = "" =>
              /\ raised.cls \notin {"ProgramError", "Python"}
              /\ pc \in {"run", "done"} =>
                    C23_Program(nodes) = C23_Program(ref.nodes)

\* the place in the file as written of the line the loader is at
C24_Position ==
    CHOOSE i \in 1..Len(file) :
        /\ file[i] # <<>>
        /\ Cardinality({ j \in 1..i : file[j] # <<>> }) = line_number

\* C24 (the line of a load error): the line number in the report of a load
\* error is the place of the offending line in the file as written, blank
\* lines counted.
C24_LoadErrorLine ==
    (pc = "reported" /\ raised.cls = "ProgramError") =>
        stderr[1].line = C24_Position

\* C25 (chr and the code points): chr of a number x above a 5 succeeds
\* exactly when x is whole and 0 <= x <= 1114111, and then leaves a string of
\* one character in its place (a for 97, the newline for 10); otherwise it
\* raises UnicodeException and leaves the 5 alone.  ord of the string chr
\* left gives x back.
C25_Chr ==
    file \in ChrFiles =>
        LET x == _eval(DropChars(file[2], Len(S_push))).v
            valid == x.d = 1 /\ 0 <= x.n /\ x.n <= 1114111
        IN /\ pc # "crashed"
           /\ pc = "reported" =>
                 /\ ~valid
                 /\ raised.name = "UnicodeException"
                 /\ primary = <<Num(5, 1)>>
           /\ (AtCommand /\ current.kind = "ord_") =>
                 /\ valid
                 /\ Len(primary) = 2 /\ primary[1] = Num(5, 1)
                 /\ primary[2].t = "str" /\ Len(primary[2].s) = 1
                 /\ x.n = 97 => primary[2] = Str(<<"a">>)
                 /\ x.n = 10 => primary[2] = Str(<<"\n">>)
           /\ pc = "done" => (valid /\ primary = <<Num(5, 1), x>>)

C25_Witness ==
    /\ file = ChrFile(<<"1", "9", "4", "/", "2">>)
    /\ pc = "done"
    /\ primary = <<Num(5, 1), Num(97, 1)>>

\* the tokens of the menu that are neither a quoted string nor a name
C26_Tokens ==
    { t \in LiteralTokens :
        /\ ~StartsWith(t, <<"\"">>)
        /\ t \notin {S_true, S_false, S_bool, S_num, S_str, S_type} }

\* t is an optional minus sign, then digits with at most one . or / among
\* them and one digit at least; behind a / there are digits on both sides and
\* the ones behind it are not all 0
C26_Numeral(t) ==
    LET y == IF t # <<>> /\ Head(t) = "-" THEN Tail(t) ELSE t
        seps == { i \in 1..Len(y) : y[i] \in {".", "/"} }
    IN /\ \A i \in 1..Len(y) : i \in seps \/ IsDigit(y[i])
       /\ Cardinality(seps) <= 1
       /\ Cardinality(seps) < Len(y)
       /\ \A k \in seps :
             y[k] = "/" => /\ 1 < k /\ k < Len(y)
                           /\ \E i \in (k + 1)..Len(y) : y[i] # "0"

C26_Files == RoundTripFiles \cup EvalFiles

\* C26 (which numerals are literals): a token that is not a quoted string or
\* a name is accepted exactly when it is an optional single minus sign and
\* digits with at most one separator, with digits on both sides of a / and
\* a denominator that is not 0; every other such token (a second separator,
\* a second minus sign, a plus sign, a letter, a space, no digit, 1/0) ends
\* loading with LiteralError when pushed and raises LiteralException in eval.
C26_Numerals ==
    file \in C26_Files =>
      \A t \in C26_Tokens :
        /\ file = RoundTripFile(t) =>
              IF C26_Numeral(t) THEN raised = NoException
              ELSE /\ pc \in {"load", "reported"}
                   /\ pc = "reported" => raised.name = "LiteralError"
        /\ file = EvalFile(t) =>
              /\ pc # "crashed"
              /\ pc = "done" => (C26_Numeral(t) /\ primary = <<_eval(t).v>>)
              /\ pc = "reported" =>
                    /\ ~C26_Numeral(t)
                    /\ raised.name = "LiteralException"
                    /\ primary = <<>>

C26_Witness ==
    /\ file = EvalFile(<<"1", "/", "0">>)
    /\ pc = "reported"
    /\ raised.name = "LiteralException"
    /\ raised.args = <<<<"1", "/", "0">>>>

\* the line the loader is about to read, its indentation followed
C27_Line == Descend(nodes, main, source[line_number + 1])

\* the text is no push line, not else, and none of the command names
C27_Unknown(text) ==
    /\ ~StartsWith(text, S_push)
    /\ text # S_else
    /\ \A e \in CommandTable : e[1] # text

\* C27 (lines that are no command): a line whose text behind its indentation
\* is neither a push, nor else, nor one of the 27 command names ends loading
\* with CommandError; an if, while or second line that is accepted adds to
\* the tree one new block without commands, last in its container.
C27_CommandError ==
    [][(pc = "load" /\ line_number < Len(source) /\ ~C27_Line.err) =>
        /\ C27_Unknown(C27_Line.line) =>
              (pc' = "reported" /\ raised'.name = "CommandError")
        /\ (C27_Line.line \in {Cmd("if_"), Cmd("while_"), Cmd("second")}
              /\ pc' = "load") =>
              /\ Len(nodes') = Len(nodes) + 1
              /\ Last(nodes').children = <<>>
              /\ Cmd(Last(nodes').kind) = C27_Line.line
              /\ nodes'[C27_Line.target].children
                   = Append(nodes[C27_Line.target].children, Len(nodes'))
              /\ \A i \in DOMAIN nodes :
                    i # C27_Line.target =>
                        nodes'[i].children = nodes[i].children]_vars

\* C28 (second directly in second): a second line whose container is a
\* second block ends loading with SecondError and adds nothing to the tree;
\* an else line whose container is a second block with an if as its last
\* command is accepted: the if becomes an if-else with the same commands,
\* in the same place.
C28_SecondInSecond ==
    [][(pc = "load" /\ line_number < Len(source) /\ ~C27_Line.err
          /\ nodes[C27_Line.target].kind = "second") =>
        LET kids == nodes[C27_Line.target].children
        IN /\ C27_Line.line = Cmd("second") =>
                 /\ pc' = "reported"
                 /\ raised'.name = "SecondError"
                 /\ nodes' = nodes
           /\ (C27_Line.line = S_else /\ kids # <<>>
                 /\ nodes[Last(kids)].kind = "if_") =>
                 /\ pc' = "load"
                 /\ raised' = NoException
                 /\ nodes' = [nodes EXCEPT
                       ![Last(kids)].kind = "if_else",
                       ![Last(kids)].if_slice = Len(nodes[Last(kids)].children),
                       ![Last(kids)].else_slice = Len(nodes[Last(kids)].children)]]_vars

C28_Witness ==
    /\ file = <<Cmd("second"), Indented(1, Cmd("second"))>>
    /\ pc = "reported"
    /\ raised.name = "SecondError"
    /\ Len(nodes) = 2

\* C29 (which operand is which): with the value b on top of the value a,
\* subtract leaves b - a, divide b / a, greater whether b > a, less whether
\* b < a, and concat the text of b followed by the text of a.
C29_Operands ==
    (file \in BinaryFiles /\ pc \in {"done", "reported"}) =>
        LET a == _eval(PushedTokens[1]).v
            b == _eval(PushedTokens[2]).v
        IN /\ pc = "done"
           /\ secondary = <<>>
           /\ file[3] = Cmd("subtract") =>
                 primary = <<Num(b.n * a.d - a.n * b.d, b.d * a.d)>>
           /\ file[3] = Cmd("divide") =>
                 primary = <<Num(b.n * a.d, b.d * a.n)>>
           /\ file[3] = Cmd("greater") =>
                 primary = <<Bool(b.n * a.d > a.n * b.d)>>
           /\ file[3] = Cmd("less") =>
                 primary = <<Bool(b.n * a.d < a.n * b.d)>>
           /\ file[3] = Cmd("concat") => primary = <<Str(b.s \o a.s)>>

C29_Witness ==
    /\ file = <<PushLine(<<"2">>), PushLine(<<"5">>), Cmd("subtract")>>
    /\ pc = "done"
    /\ primary = <<Num(3, 1)>>

\* the types a built-in asks for, in the order of its pops
C30_Types(kind) ==
    CASE kind \in {"add", "subtract", "multiply", "divide", "greater", "less"}
           -> <<"num", "num">>
      [] kind = "random" -> <<"num", "num", "num">>
      [] kind \in {"and_", "or_"} -> <<"bool", "bool">>
      [] kind = "not_" -> <<"bool">>
      [] kind = "chr_" -> <<"num">>
      [] kind = "concat" -> <<"str", "str">>
      [] kind \in {"eval_", "len_", "ord_", "print_", "split"} -> <<"str">>
      [] kind = "equal" -> <<"object", "object">>
      [] OTHER -> <<"object">>

\* the pops of that sequence that fail on the stack x: nothing is left to pop
\* or the value met is not of the type asked for
C30_Fails(x, types) ==
    { i \in 1..Len(types) :
        \/ i > Len(x)
        \/ ~IsInstance(x[Len(x) + 1 - i], types[i]) }

\* C30 (no pop is undone): when a built-in raises TypeException or
\* PopException, its stack is left without every value popped up to the
\* failing pop, the value of the wrong type included; the other stack is as it
\* was, and the report shows the two stacks as they are left.
C30_NoRollback ==
    [][(C20_Pops /\ current.kind \in OpNames
          /\ raised'.name \in {"TypeException", "PopException"}) =>
        LET x == C20_Popped
            fails == C30_Fails(x, C30_Types(current.kind))
            k == CHOOSE i \in fails : \A j \in fails : i <= j
            left == IF k > Len(x) THEN <<>> ELSE SubSeq(x, 1, Len(x) - k)
            ofPrimary == current.kind = "flip" \/ top.st = "primary"
        IN /\ fails # {}
           /\ raised'.name =
                 IF k > Len(x) THEN "PopException" ELSE "TypeException"
           /\ primary' = IF ofPrimary THEN left ELSE primary
           /\ secondary' = IF ofPrimary THEN secondary ELSE left
           /\ stdout' = stdout
           /\ pc' = "reported"
           /\ stderr' =
                 <<Header(raised', line_number), Text("Primary stack_ [")>>
                   \o C20_Values(primary')
                   \o <<Text("]"), Text("Secondary stack: [")>>
                   \o C20_Values(secondary') \o <<Text("]")>>]_vars

C30_Witness ==
    /\ file = OpFile(<<>>, 0, << <<"1">>, <<"\"", "a", "b">>, <<"0">> >>, "add")
    /\ pc = "reported"
    /\ raised.name = "TypeException"
    /\ primary = <<Num(1, 1)>>
    /\ secondary = <<>>
    /\ stderr = <<Header(raised, line_number), Text("Primary stack_ ["),
                  ErrLine("  {}", "", 0, "", <<_repr(Num(1, 1))>>),
                  Text("]"), Text("Secondary stack: ["), Text("]")>>

\* C31 (equal bounds are found before the step is taken): random, called with
\* two equal numbers on top of its stack, raises RangeException and leaves the
\* stack without those two values and nothing else, whatever lies beneath
\* them: nothing, a value that is not a number, or a number.
C31_RangeBeforeStep ==
    [][(AtCommand /\ current.kind = "random"
          /\ C15_Numbers(Handed(primary, secondary), 2)
          /\ Last(Handed(primary, secondary))
               = Last(Front(Handed(primary, secondary)))) =>
        LET x == Handed(primary, secondary)
        IN /\ raised' = ProgramException("RangeException",
                                         "random range is of size 0", <<>>)
           /\ pc' = "reported"
           /\ Handed(primary', secondary') = SubSeq(x, 1, Len(x) - 2)
           /\ Handed(secondary', primary') = Handed(secondary, primary)
           /\ stdout' = stdout
           /\ stderr' =
                 <<Header(raised', line_number), Text("Primary stack_ [")>>
                   \o C20_Values(primary')
                   \o <<Text("]"), Text("Secondary stack: [")>>
                   \o C20_Values(secondary') \o <<Text("]")>>]_vars

C31_Witness ==
    /\ file = OpFile(<<>>, 0, << <<"\"", "a", "b">>, <<"1">>, <<"1">> >>,
                     "random")
    /\ pc = "reported"
    /\ raised.name = "RangeException"
    /\ primary = <<Str(<<"a", "b">>)>>
    /\ secondary = <<>>

\* C32 (a second block redirects its own commands only): every block being
\* run works on the secondary stack when it is a second block or runs inside
\* one, and on the primary stack otherwise; so a second block holding a
\* condition, an if, if-else or while block and a push, with a push before the
\* second block and one after it, leaves the two outer values on the primary
\* stack and everything else on the secondary one.
C32_Scoped ==
    /\ \A j \in 1..Len(frames) :
          frames[j].st =
             IF \E i \in 1..j : nodes[frames[i].node].kind = "second"
               THEN "secondary" ELSE "primary"
    /\ (file \in ScopeFiles /\ pc \in {"done", "reported", "crashed"}) =>
          /\ pc = "done"
          /\ primary = <<Num(7, 1), Num(3, 1)>>
          /\ \A w \in {0, 1}, kind \in {"if_", "if_else", "while_"} :
                /\ file = ScopeFile(w, S_true, kind) =>
                      secondary = <<Num(2, 1), Num(8, 1)>>
                /\ file = ScopeFile(w, S_false, kind) =>
                      secondary = IF kind = "if_else"
                                    THEN <<Num(4, 1), Num(8, 1)>>
                                  ELSE <<Num(8, 1)>>

C32_Witness ==
    /\ file = ScopeFile(0, S_true, "while_")
    /\ pc = "done"
    /\ primary = <<Num(7, 1), Num(3, 1)>>
    /\ secondary = <<Num(2, 1), Num(8, 1)>>

\* the program was loaded and its run is over
C33_Over == pc = "done" \/ (pc \in {"reported", "crashed"} /\ frames # <<>>)

\* the tree holds a while block
C33_Loops == \E n \in 1..Len(nodes) : nodes[n].kind = "while_"

\* C33 (how a run without while ends): once a loaded program that holds no
\* while block has stopped, either its top-level commands are exhausted and
\* nothing was reported, or one ProgramException was raised and reported with
\* the two stacks.
C33_RunEnds ==
    (C33_Over /\ ~C33_Loops) =>
        \/ pc = "done" /\ raised = NoException /\ stderr = <<>>
        \/ /\ pc = "reported"
           /\ raised.cls = "ProgramException"
           /\ stderr = Report(raised, line_number, primary, secondary)

=============================================================================
